---- MODULE Spec2Model ----
(***************************************************************************)
(* A model of the adaptive listing extractor of                            *)
(* src/scrapers/unified_broker_scraper_v2.py: the pattern knowledge base   *)
(* (PatternDatabase), the pattern detector (PatternDetector), and the      *)
(* pagination crawler (SelfLearningScraper).                               *)
(*                                                                         *)
(* Strings the code inspects character by character (domain names, tag     *)
(* names, signatures) are sequences of one-character strings.  A float     *)
(* that is a quotient of two small integers is the pair <<num, den>>,      *)
(* compared by cross-multiplication.                                       *)
(***************************************************************************)
EXTENDS Integers, Sequences, FiniteSets, TLC

VARIABLES
    \* --- trigram similarity (PatternDatabase._domain_similarity)
    simA, simB, simAB, simBA,
    \* --- structural signatures (PatternDetector._get_signature)
    elA, elB, sigA, sigB,
    \* --- pattern detection (PatternDetector.find_patterns)
    soup, detected,
    \* --- pattern knowledge base (PatternDatabase)
    patterns,      \* self.patterns: the in-memory records, in insertion order
    db_patterns,   \* the rows of table scraper_patterns
    db_history,    \* the rows of table scraper_history, in insertion order
    loaded,        \* history variable: self.patterns after __init__
    log,           \* history variable: the record_success calls made so far
    before,        \* history variable: self.patterns before the last call
    \* --- pattern prediction (PatternDatabase.predict_pattern)
    predUrl, predAvailable, predicted,
    \* --- the crawl (SelfLearningScraper.run_async, scrape_broker,
    \*     scrape_with_learning)
    specialized_brokers, \* specialized_brokers: the franchise sources, in order
    brokers,       \* regular_brokers: the sources of the run, in order
    bi,            \* the index of the source the current loop is working on
    pc,            \* where the run is: "specialized", "start", "opened", "crawl",
                   \* "finish", "done", "aborted"
    open_pages,    \* the pages open on self.context, by the index of their source
    stats,         \* self.stats
    all_listings,  \* self.all_listings
    seen_ids,      \* self.seen_ids
    crawl,         \* the locals of scrape_with_learning
    site,          \* the source's web site: the page shown, pages served
    db_failures,   \* the rows of table scraper_failures, in insertion order
    trace,         \* history variable: what the current crawl has done
    outcomes,      \* history variable: how each finished regular source ended
    attempts,      \* history variable: the accounts attempted so far, in order
    \* --- two runs over one page (normalize_to_db_format)
    idem,
    \* --- the simple-network scraper (scraper/cleaning_scraper.py)
    fetch,         \* one call of fetch_page with its _post_with_retry
    pool,          \* scrape_listings: the worker threads and what they share
    \* --- failure classification (FailureAnalyzer.classify_failure)
    classify,      \* one call: its arguments and what it returned
    \* --- the record of the run (create_scraper_run, update_scraper_run)
    scraper_runs,  \* the rows of table scraper_runs, in insertion order
    \* --- the orchestrator (scrapers/orchestrator.py)
    orch           \* ScraperOrchestrator: its fields and the position of run

simVars == <<simA, simB, simAB, simBA>>
sigVars == <<elA, elB, sigA, sigB>>
detVars == <<soup, detected>>
kbVars == <<patterns, db_patterns, db_history, loaded, log, before>>
predVars == <<predUrl, predAvailable, predicted>>
crawlVars == <<specialized_brokers, brokers, bi, pc, open_pages, stats, all_listings,
               seen_ids, crawl, site, db_failures, trace, outcomes, attempts>>
extVars == <<idem, fetch, pool>>
auxVars == <<classify, scraper_runs, orch>>
vars == <<simVars, sigVars, detVars, kbVars, predVars, crawlVars, extVars, auxVars>>

None == "None"
NoElement == [name |-> <<>>]

\* The values of the variables a specification does not use.
SimIdle ==
    /\ simA = <<>> /\ simB = <<>> /\ simAB = None /\ simBA = None

SigIdle ==
    /\ elA = NoElement /\ elB = NoElement /\ sigA = None /\ sigB = None

DetIdle ==
    /\ soup = <<>> /\ detected = None

KbIdle ==
    /\ patterns = <<>> /\ db_patterns = {} /\ db_history = <<>>
    /\ loaded = <<>> /\ log = <<>> /\ before = <<>>

PredIdle ==
    /\ predUrl = <<>> /\ predAvailable = <<>> /\ predicted = "idle"

CrawlIdle ==
    /\ specialized_brokers = <<>> /\ brokers = <<>> /\ bi = 0 /\ pc = "idle"
    /\ open_pages = {} /\ stats = <<>>
    /\ all_listings = <<>> /\ seen_ids = {} /\ crawl = <<>> /\ site = <<>>
    /\ db_failures = <<>> /\ trace = <<>> /\ outcomes = <<>> /\ attempts = <<>>

IdemIdle == idem = <<>>
FetchIdle == fetch = <<>>
PoolIdle == pool = <<>>
ExtIdle == IdemIdle /\ FetchIdle /\ PoolIdle
ClassifyIdle == classify = <<>>
RunsIdle == scraper_runs = <<>>
OrchIdle == orch = <<>>
AuxIdle == ClassifyIdle /\ RunsIdle /\ OrchIdle

(***************************************************************************)
(* Character strings                                                       *)
(***************************************************************************)
\* All strings over the alphabet cs of length at most n.
StringsUpTo(cs, n) == UNION {[1..k -> cs] : k \in 0..n}

\* The characters that occur in tag names, in code-point order.
CharOrder == <<",", "3", "a", "d", "g", "h", "i", "l", "m", "p", "v", "|">>
CharRank(c) == CHOOSE i \in 1..Len(CharOrder) : CharOrder[i] = c

\* Python's str < str: the first differing character decides, a proper prefix
\* is smaller.
RECURSIVE StrLess(_, _)
StrLess(s, t) ==
    IF t = <<>> THEN FALSE
    ELSE IF s = <<>> THEN TRUE
    ELSE IF Head(s) = Head(t) THEN StrLess(Tail(s), Tail(t))
    ELSE CharRank(Head(s)) < CharRank(Head(t))

\* sorted(S) for a set S of strings.
RECURSIVE SortedStrings(_)
SortedStrings(S) ==
    IF S = {} THEN <<>>
    ELSE LET m == CHOOSE x \in S : \A y \in S \ {x} : StrLess(x, y)
         IN  <<m>> \o SortedStrings(S \ {m})

\* sep.join(parts)
RECURSIVE Join(_, _)
Join(parts, sep) ==
    IF parts = <<>> THEN <<>>
    ELSE IF Len(parts) = 1 THEN parts[1]
    ELSE parts[1] \o sep \o Join(Tail(parts), sep)

SeqRange(s) == {s[i] : i \in 1..Len(s)}

(***************************************************************************)
(* Rationals <<num, den>>, den > 0                                         *)
(***************************************************************************)
RatEq(p, q) == p[1] * q[2] = q[1] * p[2]
RatLess(p, q) == p[1] * q[2] < q[1] * p[2]
RatAdd(p, q) == <<p[1] * q[2] + q[1] * p[2], p[2] * q[2]>>
RatTimesInt(p, n) == <<p[1] * n, p[2]>>

(***************************************************************************)
(* PatternDatabase._domain_similarity                                      *)
(***************************************************************************)
\* trigrams(s): set(s[i:i+3] for i in range(len(s)-2))
trigrams(s) == {SubSeq(s, i, i + 2) : i \in 1..(Len(s) - 2)}

\* A plausible slip: the quotient taken over the first argument's trigrams only.
DomainSimilarityOverFirst(d1, d2) ==
    LET t1 == trigrams(d1)
        t2 == trigrams(d2)
    IN  IF t1 = {} \/ t2 = {} THEN <<0, 1>>
        ELSE <<Cardinality(t1 \cap t2), Cardinality(t1)>>

DomainSimilarity(d1, d2) ==
    LET t1 == trigrams(d1)
        t2 == trigrams(d2)
    IN  IF t1 = {} \/ t2 = {} THEN <<0, 1>>
        ELSE <<Cardinality(t1 \cap t2), Cardinality(t1 \cup t2)>>

(***************************************************************************)
(* Page elements                                                           *)
(*                                                                         *)
(* An element is what the code reads of a bs4 Tag:                         *)
(*   name       element.name                                               *)
(*   depth      len(list(element.parents))                                 *)
(*   childTags  the names of element.find_all(recursive=False), in order   *)
(*   link       element.find('a', href=True) is not None                   *)
(*   img        element.find('img') is not None                            *)
(*   textLen    len(element.get_text(strip=True))                          *)
(*   price      re.search(r'\$[\d,]+', element.get_text()) is not None     *)
(***************************************************************************)
T_div == <<"d", "i", "v">>
T_li == <<"l", "i">>
T_a == <<"a">>
T_p == <<"p">>
T_img == <<"i", "m", "g">>
T_a_comma_p == <<"a", ",", "p">>

S_children == <<"c", "h", "i", "l", "d", "r", "e", "n", ":">>
S_has_link == <<"h", "a", "s", "_", "l", "i", "n", "k">>
S_has_img == <<"h", "a", "s", "_", "i", "m", "g">>
S_text_long == <<"t", "e", "x", "t", ":", "l", "o", "n", "g">>
S_text_medium == <<"t", "e", "x", "t", ":", "m", "e", "d", "i", "u", "m">>
S_has_price == <<"h", "a", "s", "_", "p", "r", "i", "c", "e">>

LongText == 200
MediumText == 50

\* A plausible slip: the price flag is left out of the fingerprint.
GetSignatureNoPrice(el) ==
    LET parts ==
            <<el.name>>
            \o (IF el.childTags # <<>>
                THEN <<S_children \o Join(SortedStrings(SeqRange(el.childTags)), <<",">>)>>
                ELSE <<>>)
            \o (IF el.link THEN <<S_has_link>> ELSE <<>>)
            \o (IF el.img THEN <<S_has_img>> ELSE <<>>)
            \o (IF el.textLen > LongText THEN <<S_text_long>>
                ELSE IF el.textLen > MediumText THEN <<S_text_medium>>
                ELSE <<>>)
    IN  Join(parts, <<"|">>)

\* PatternDetector._get_signature
GetSignature(el) ==
    LET parts ==
            <<el.name>>
            \o (IF el.childTags # <<>>
                THEN <<S_children \o Join(SortedStrings(SeqRange(el.childTags)), <<",">>)>>
                ELSE <<>>)
            \o (IF el.link THEN <<S_has_link>> ELSE <<>>)
            \o (IF el.img THEN <<S_has_img>> ELSE <<>>)
            \o (IF el.textLen > LongText THEN <<S_text_long>>
                ELSE IF el.textLen > MediumText THEN <<S_text_medium>>
                ELSE <<>>)
            \o (IF el.price THEN <<S_has_price>> ELSE <<>>)
    IN  Join(parts, <<"|">>)

(***************************************************************************)
(* Specification SpecSig: _get_signature applied to any two elements       *)
(***************************************************************************)
SigNames == {T_div, T_li}
SigChildTags == {<<>>, <<T_a>>, <<T_a, T_p>>, <<T_p, T_a, T_p>>, <<T_a_comma_p>>, <<T_img>>}
SigTextLens == {MediumText, MediumText + 1, LongText, LongText + 1}

\* The elements a parsed page can hold: a link or an image is a descendant, so
\* an element with either has children, and an img child is an image.
WellFormedElement(el) ==
    /\ (el.link \/ el.img) => el.childTags # <<>>
    /\ T_img \in SeqRange(el.childTags) => el.img

SigElements ==
    {el \in [name : SigNames, depth : {5}, childTags : SigChildTags,
             link : BOOLEAN, img : BOOLEAN, textLen : SigTextLens,
             price : BOOLEAN] : WellFormedElement(el)}

InitSig ==
    /\ elA \in SigElements
    /\ elB \in SigElements
    /\ sigA = None
    /\ sigB = None
    /\ SimIdle /\ DetIdle /\ KbIdle /\ PredIdle /\ CrawlIdle /\ ExtIdle /\ AuxIdle

ComputeSignature ==
    /\ sigA = None
    /\ elA # NoElement
    /\ sigA' = GetSignature(elA)
    /\ sigB' = GetSignature(elB)
    /\ UNCHANGED <<elA, elB, simVars, detVars, kbVars, predVars, crawlVars, extVars, auxVars>>

NextSig == ComputeSignature

SpecSig == InitSig /\ [][NextSig]_vars

\* The text-length bucket of the signature.
TextBucket(el) ==
    IF el.textLen > LongText THEN "long"
    ELSE IF el.textLen > MediumText THEN "medium"
    ELSE "short"

\* The axes the claim names: tag, set of direct-child tags, link presence, image
\* presence, text-length bucket.
SameClaimedAxes(e1, e2) ==
    /\ e1.name = e2.name
    /\ SeqRange(e1.childTags) = SeqRange(e2.childTags)
    /\ e1.link = e2.link
    /\ e1.img = e2.img
    /\ TextBucket(e1) = TextBucket(e2)

PlainName(t) == \A i \in 1..Len(t) : t[i] \notin {",", "|"}
PlainChildren(el) == \A i \in 1..Len(el.childTags) : PlainName(el.childTags[i])

\* C10 as stated: elements equal on the five axes get identical signatures
\* whatever their text, and elements that differ on one of them get different
\* signatures.
SignatureStabilityAsStated ==
    sigA # None =>
        /\ SameClaimedAxes(elA, elB) => sigA = sigB
        /\ ~SameClaimedAxes(elA, elB) => sigA # sigB

\* C10, amended: the price flag is a sixth axis.  Elements equal on tag,
\* child-tag set, link presence, image presence, text-length bucket (over 200,
\* 51 to 200, at most 50 characters) and price flag get identical signatures;
\* elements that differ on one of the six get different signatures when no
\* child tag name holds a ',' or a '|'.
SignatureStability ==
    sigA # None =>
        /\ (SameClaimedAxes(elA, elB) /\ elA.price = elB.price) => sigA = sigB
        /\ (/\ ~(SameClaimedAxes(elA, elB) /\ elA.price = elB.price)
            /\ PlainChildren(elA) /\ PlainChildren(elB))
           => sigA # sigB

\* Two elements whose texts differ in length within one bucket and whose
\* children differ in order and number but not as a set, have been signed.
SignatureStabilityWitness ==
    /\ sigA # None
    /\ SameClaimedAxes(elA, elB)
    /\ elA.price /\ elB.price
    /\ elA.textLen # elB.textLen
    /\ elA.childTags # elB.childTags
    /\ elA.link /\ ~elA.img

(***************************************************************************)
(* PatternDetector.find_patterns                                           *)
(*                                                                         *)
(* A page (soup) is the sequence of its div, article, section, li and tr   *)
(* elements in document order, as soup.find_all returns them.  A pattern   *)
(* is [signature, elements, count]; avg_text_length, which nothing reads,  *)
(* is left out.                                                            *)
(***************************************************************************)
MinDepth == 3
MaxDepth == 15
MinGroup == 3
MinValid == 3
ValidTextLen == 50

\* The elements the loop keeps: depth within the band, signature not empty.
InBand(el) == ~(el.depth < MinDepth \/ el.depth > MaxDepth)

\* el.find('a', href=True) and len(el.get_text(strip=True)) > 50
IsValid(el) == el.link /\ el.textLen > ValidTextLen

\* The keys of the signatures dict, in insertion order.
RECURSIVE FirstSeen(_, _)
FirstSeen(sigs, seen) ==
    IF sigs = <<>> THEN <<>>
    ELSE IF Head(sigs) \in seen THEN FirstSeen(Tail(sigs), seen)
    ELSE <<Head(sigs)>> \o FirstSeen(Tail(sigs), seen \cup {Head(sigs)})

\* list.sort(key=count, reverse=True): stable, so patterns of equal count keep
\* their order.
RECURSIVE InsertByCount(_, _)
InsertByCount(p, sorted) ==
    IF sorted = <<>> THEN <<p>>
    ELSE IF Head(sorted).count >= p.count
         THEN <<Head(sorted)>> \o InsertByCount(p, Tail(sorted))
         ELSE <<p>> \o sorted

RECURSIVE SortByCountDesc(_)
SortByCountDesc(ps) ==
    IF ps = <<>> THEN <<>>
    ELSE InsertByCount(ps[Len(ps)], SortByCountDesc(SubSeq(ps, 1, Len(ps) - 1)))

\* A plausible slip: a group is kept whatever the number of its valid members.
GroupAcceptedAnyValid(elements, valid) ==
    Len(elements) >= MinGroup

\* len(elements) >= 3 and len(valid) >= 3
GroupAccepted(elements, valid) ==
    Len(elements) >= MinGroup /\ Len(valid) >= MinValid

FindPatterns(page) ==
    LET Kept(el) == InBand(el) /\ GetSignature(el) # <<>>
        kept == SelectSeq(page, Kept)
        keys == FirstSeen([i \in 1..Len(kept) |-> GetSignature(kept[i])], {})
        Group(sig) == LET Same(el) == GetSignature(el) = sig
                      IN  SelectSeq(kept, Same)
        Valid(sig) == SelectSeq(Group(sig), IsValid)
        Accepted(sig) == GroupAccepted(Group(sig), Valid(sig))
        accepted == SelectSeq(keys, Accepted)
        found == [i \in 1..Len(accepted) |->
                        [signature |-> accepted[i],
                         elements |-> Valid(accepted[i]),
                         count |-> Len(Valid(accepted[i]))]]
    IN  SortByCountDesc(found)

(***************************************************************************)
(* Specification SpecDetect: find_patterns applied to any page             *)
(***************************************************************************)
MaxPageElements == 4

DetectElements ==
    {el \in [name : {T_div}, depth : {MinDepth - 1, MinDepth}, childTags : {<<T_a>>},
             link : BOOLEAN, img : {FALSE},
             textLen : {ValidTextLen, ValidTextLen + 1},
             price : {FALSE}] : WellFormedElement(el)}

InitDetect ==
    /\ soup \in UNION {[1..n -> DetectElements] : n \in 0..MaxPageElements}
    /\ detected = None
    /\ SimIdle /\ SigIdle /\ KbIdle /\ PredIdle /\ CrawlIdle /\ ExtIdle /\ AuxIdle

Detect ==
    /\ detected = None
    /\ detected' = FindPatterns(soup)
    /\ UNCHANGED <<soup, simVars, sigVars, kbVars, predVars, crawlVars, extVars, auxVars>>

NextDetect == Detect

SpecDetect == InitDetect /\ [][NextDetect]_vars

\* The members of the page that share a signature and have both a hyperlink
\* and visible text longer than 50 characters.
ValidMembers(page, sig) ==
    {i \in 1..Len(page) : GetSignature(page[i]) = sig /\ page[i].link /\ page[i].textLen > 50}

\* C9: every pattern find_patterns returns has count >= 3 and at least 3
\* member elements with both a hyperlink and visible text longer than 50
\* characters; a signature group of the page with fewer than 3 such members
\* is never returned.
PatternValidity ==
    detected # None =>
        \A k \in 1..Len(detected) :
            LET p == detected[k]
            IN  /\ p.count >= 3
                /\ Cardinality({i \in 1..Len(p.elements) :
                        p.elements[i].link /\ p.elements[i].textLen > 50}) >= 3
                /\ Cardinality(ValidMembers(soup, p.signature)) >= 3

\* A pattern has been returned from a page that also holds an element of
\* another signature.
PatternValidityWitness ==
    /\ detected # None
    /\ Len(detected) = 1
    /\ Len(soup) > detected[1].count

(***************************************************************************)
(* PatternDatabase                                                         *)
(*                                                                         *)
(* A record of self.patterns is [domain, pattern, success_count,           *)
(* total_listings]; a row of scraper_patterns is [domain,                  *)
(* pattern_signature, success_count, total_listings]; a row of             *)
(* scraper_history is [domain, pattern_signature, listings_count].  The    *)
(* timestamps (first_seen, last_used, scraped_at), which no decision       *)
(* reads, are left out.  A URL is given by its netloc.                     *)
(***************************************************************************)
S_www == <<"w", "w", "w", ".">>

StartsWith(s, pre) == Len(s) >= Len(pre) /\ SubSeq(s, 1, Len(pre)) = pre

\* netloc.replace('www.', ''): every occurrence, left to right.
RECURSIVE RemoveWww(_)
RemoveWww(s) ==
    IF s = <<>> THEN <<>>
    ELSE IF StartsWith(s, S_www) THEN RemoveWww(SubSeq(s, Len(S_www) + 1, Len(s)))
    ELSE <<Head(s)>> \o RemoveWww(Tail(s))

\* urlparse(url).netloc.replace('www.', '')
DomainOf(netloc) == RemoveWww(netloc)

KbDomains(kb) == {kb[i].domain : i \in 1..Len(kb)}
KbHas(kb, d) == d \in KbDomains(kb)
KbIndex(kb, d) == CHOOSE i \in 1..Len(kb) : kb[i].domain = d

\* PatternDatabase.get_pattern_for_domain: self.patterns.get(domain)
GetPatternForDomain(kb, d) == IF KbHas(kb, d) THEN kb[KbIndex(kb, d)] ELSE None

\* self.patterns.get(domain, {}).get(key, 0)
KbSuccessCount(kb, d) == IF KbHas(kb, d) THEN kb[KbIndex(kb, d)].success_count ELSE 0
KbTotalListings(kb, d) == IF KbHas(kb, d) THEN kb[KbIndex(kb, d)].total_listings ELSE 0

\* upsert(row, on_conflict='domain')
Upsert(table, row) == {r \in table : r.domain # row.domain} \cup {row}

\* PatternDatabase.load: one record per row, in the order the store returns them.
RECURSIVE LoadRows(_)
LoadRows(table) ==
    IF table = {} THEN <<>>
    ELSE LET r == CHOOSE x \in table : \A y \in table \ {x} : StrLess(x.domain, y.domain)
         IN  <<[domain |-> r.domain, pattern |-> r.pattern_signature,
                success_count |-> r.success_count,
                total_listings |-> r.total_listings]>> \o LoadRows(table \ {r})

\* A plausible slip: the record is created anew on every call.
MemoryUpdateAlwaysNew(kb, d, sig, n) ==
    LET fresh == [domain |-> d, pattern |-> sig, success_count |-> 1, total_listings |-> n]
    IN  IF KbHas(kb, d) THEN [kb EXCEPT ![KbIndex(kb, d)] = fresh]
        ELSE Append(kb, fresh)

\* The in-memory part of record_success (lines 178-189): a record is created
\* for a new domain, with the pattern of this call; the counts are added to.
\* The pattern of a domain that has a record is left as it is.
MemoryUpdate(kb, d, sig, n) ==
    LET kb1 == IF KbHas(kb, d) THEN kb
               ELSE Append(kb, [domain |-> d, pattern |-> sig,
                                success_count |-> 0, total_listings |-> 0])
        i == KbIndex(kb1, d)
    IN  [kb1 EXCEPT ![i].success_count = @ + 1, ![i].total_listings = @ + n]

\* The outcomes of a write to the store.
WriteFaults == {"none", "upsert", "insert"}

\* A plausible slip: the writes are not wrapped in try / except, so a failed
\* write raises out of record_success.
RecordSuccessUnguarded(kb, table, history, netloc, sig, n, fault) ==
    LET d == DomainOf(netloc)
        row == [domain |-> d, pattern_signature |-> sig,
                success_count |-> KbSuccessCount(kb, d) + 1,
                total_listings |-> KbTotalListings(kb, d) + n]
        entry == [domain |-> d, pattern_signature |-> sig, listings_count |-> n]
    IN  IF fault = "upsert"
        THEN [kb |-> kb, table |-> table, history |-> history, raised |-> TRUE]
        ELSE IF fault = "insert"
        THEN [kb |-> kb, table |-> Upsert(table, row), history |-> history,
              raised |-> TRUE]
        ELSE [kb |-> MemoryUpdate(kb, d, sig, n), table |-> Upsert(table, row),
              history |-> Append(history, entry), raised |-> FALSE]

\* PatternDatabase.record_success(url, pattern_signature, listings_count), with
\* fault naming the write that raises, if one does.  The result is the state
\* after the call and whether the call raised: the except clause prints a
\* warning, so it never does.
RecordSuccess(kb, table, history, netloc, sig, n, fault) ==
    LET d == DomainOf(netloc)
        row == [domain |-> d, pattern_signature |-> sig,
                success_count |-> KbSuccessCount(kb, d) + 1,
                total_listings |-> KbTotalListings(kb, d) + n]
        entry == [domain |-> d, pattern_signature |-> sig, listings_count |-> n]
    IN  IF fault = "upsert"
        THEN [kb |-> kb, table |-> table, history |-> history, raised |-> FALSE]
        ELSE IF fault = "insert"
        THEN [kb |-> kb, table |-> Upsert(table, row), history |-> history,
              raised |-> FALSE]
        ELSE [kb |-> MemoryUpdate(kb, d, sig, n), table |-> Upsert(table, row),
              history |-> Append(history, entry), raised |-> FALSE]

(***************************************************************************)
(* Specification SpecKB: sequences of record_success calls                 *)
(***************************************************************************)
MaxCalls == 2

N_abcd == <<"a", "b", "c", "d">>
N_www_abcd == S_www \o N_abcd
N_abce == <<"a", "b", "c", "e">>
KbNetlocs == {N_abcd, N_www_abcd, N_abce}
KbSigs == {"P1", "P2"}
KbListingCounts == {1, 2}

\* The store before the run: empty, or holding the row of an earlier run.
KbStoredBefore ==
    {{}, {[domain |-> N_abcd, pattern_signature |-> "P1",
           success_count |-> 2, total_listings |-> 3]}}

InitKB ==
    /\ db_patterns \in KbStoredBefore
    /\ db_history = <<>>
    \* load() reads the rows, or fails and leaves self.patterns empty
    /\ patterns \in {LoadRows(db_patterns), <<>>}
    /\ loaded = patterns
    /\ log = <<>>
    /\ before = patterns
    /\ SimIdle /\ SigIdle /\ DetIdle /\ PredIdle /\ CrawlIdle /\ ExtIdle /\ AuxIdle

CallRecordSuccess ==
    /\ Len(log) < MaxCalls
    /\ \E netloc \in KbNetlocs, sig \in KbSigs, n \in KbListingCounts, fault \in WriteFaults :
        LET r == RecordSuccess(patterns, db_patterns, db_history, netloc, sig, n, fault)
        IN  /\ patterns' = r.kb
            /\ db_patterns' = r.table
            /\ db_history' = r.history
            /\ log' = Append(log, [domain |-> DomainOf(netloc), sig |-> sig, n |-> n,
                                   fault |-> fault, raised |-> r.raised])
    /\ before' = patterns
    /\ UNCHANGED <<loaded, simVars, sigVars, detVars, predVars, crawlVars, extVars, auxVars>>

NextKB == CallRecordSuccess

SpecKB == InitKB /\ [][NextKB]_vars

\* What the calls made so far say of a domain.
CallsFor(d) == SelectSeq(log, LAMBDA c : c.domain = d)
RECURSIVE SumListings(_)
SumListings(cs) == IF cs = <<>> THEN 0 ELSE Head(cs).n + SumListings(Tail(cs))
AllPersisted == \A i \in 1..Len(log) : log[i].fault = "none"

\* C4: after any sequence of record_success calls whose persistence succeeds,
\* the knowledge base holds exactly one record per domain, and
\* get_pattern_for_domain returns the pattern signature of the most recent call
\* for the domain, with success_count increased by one per call and
\* total_listings by the sum of the listing counts.
OneRecordLatestPattern ==
    AllPersisted =>
        \A d \in {log[i].domain : i \in 1..Len(log)} :
            LET cs == CallsFor(d)
                rec == GetPatternForDomain(patterns, d)
            IN  /\ Cardinality({i \in 1..Len(patterns) : patterns[i].domain = d}) = 1
                /\ Cardinality({r \in db_patterns : r.domain = d}) = 1
                /\ rec.pattern = cs[Len(cs)].sig
                /\ rec.success_count = KbSuccessCount(loaded, d) + Len(cs)
                /\ rec.total_listings = KbTotalListings(loaded, d) + SumListings(cs)

(***************************************************************************)
(* PatternDatabase.predict_pattern                                         *)
(*                                                                         *)
(* Similarities and scores are exact quotients here and floats in the      *)
(* code; the two can order a pair differently only when two scores are     *)
(* equal as quotients.                                                     *)
(***************************************************************************)
SimilarityFloor == <<3, 10>>
TopSimilar == 5

\* sims.sort(key=similarity, reverse=True): stable.
RECURSIVE InsertBySimilarity(_, _)
InsertBySimilarity(x, sorted) ==
    IF sorted = <<>> THEN <<x>>
    ELSE IF ~RatLess(Head(sorted).similarity, x.similarity)
         THEN <<Head(sorted)>> \o InsertBySimilarity(x, Tail(sorted))
         ELSE <<x>> \o sorted

RECURSIVE SortBySimilarityDesc(_)
SortBySimilarityDesc(xs) ==
    IF xs = <<>> THEN <<>>
    ELSE InsertBySimilarity(xs[Len(xs)], SortBySimilarityDesc(SubSeq(xs, 1, Len(xs) - 1)))

\* A plausible slip: a domain at the floor itself is kept.
ClearsFloorInclusive(similarity) == ~RatLess(similarity, SimilarityFloor)

\* similarity > 0.3
ClearsFloor(similarity) == RatLess(SimilarityFloor, similarity)

\* PatternDatabase._find_similar_domains
FindSimilarDomains(kb, target) ==
    LET all == [i \in 1..Len(kb) |->
                    [domain |-> kb[i].domain,
                     similarity |-> DomainSimilarity(target, kb[i].domain)]]
        sims == SelectSeq(all, LAMBDA x : ClearsFloor(x.similarity))
    IN  SortBySimilarityDesc(sims)

\* similar[:5]
Top(similar) == SubSeq(similar, 1, IF Len(similar) < TopSimilar THEN Len(similar) ELSE TopSimilar)

\* pattern_scores after the loop of lines 208-213: (pattern, score) pairs in
\* insertion order.
RECURSIVE AddScore(_, _, _)
AddScore(scores, pattern, weight) ==
    IF scores = <<>> THEN <<[pattern |-> pattern, score |-> RatAdd(<<0, 1>>, weight)]>>
    ELSE IF Head(scores).pattern = pattern
         THEN <<[Head(scores) EXCEPT !.score = RatAdd(@, weight)]>> \o Tail(scores)
         ELSE <<Head(scores)>> \o AddScore(Tail(scores), pattern, weight)

RECURSIVE PatternScores(_, _, _)
PatternScores(kb, similar, available) ==
    IF similar = <<>> THEN <<>>
    ELSE LET sofar == PatternScores(kb, SubSeq(similar, 1, Len(similar) - 1), available)
             x == similar[Len(similar)]
             rec == kb[KbIndex(kb, x.domain)]
         IN  IF rec.pattern \in SeqRange(available)
             THEN AddScore(sofar, rec.pattern, RatTimesInt(x.similarity, rec.success_count))
             ELSE sofar

\* max(pattern_scores, key=pattern_scores.get): the first key of the greatest
\* score.
BestPattern(scores) ==
    LET i == CHOOSE k \in 1..Len(scores) :
                /\ \A j \in 1..Len(scores) : ~RatLess(scores[k].score, scores[j].score)
                /\ \A j \in 1..(k - 1) : RatLess(scores[j].score, scores[k].score)
    IN  scores[i].pattern

\* predict_pattern returns a pattern rather than None: the domain is known, or
\* a similar domain holds a pattern of the available list.
HasPrediction(kb, netloc, available) ==
    LET d == DomainOf(netloc)
        similar == FindSimilarDomains(kb, d)
        scores == PatternScores(kb, Top(similar), available)
    IN  KbHas(kb, d) \/ (similar # <<>> /\ scores # <<>>)

\* PatternDatabase.predict_pattern(url, available_patterns)
PredictPattern(kb, netloc, available) ==
    LET d == DomainOf(netloc)
        similar == FindSimilarDomains(kb, d)
        scores == PatternScores(kb, Top(similar), available)
    IN  IF ~HasPrediction(kb, netloc, available) THEN None
        ELSE IF KbHas(kb, d) THEN kb[KbIndex(kb, d)].pattern
        ELSE BestPattern(scores)

(***************************************************************************)
(* Specification SpecPredict: predict_pattern over any knowledge base      *)
(***************************************************************************)
MaxSuccess == 2

D_abcdefgh == <<"a", "b", "c", "d", "e", "f", "g", "h">>
D_abcdefg == <<"a", "b", "c", "d", "e", "f", "g">>
D_bcdefgh == <<"b", "c", "d", "e", "f", "g", "h">>
D_abcdef == <<"a", "b", "c", "d", "e", "f">>
D_cdefgh == <<"c", "d", "e", "f", "g", "h">>
D_bcdef == <<"b", "c", "d", "e", "f">>
\* The domains the knowledge base may know, in the order it loaded them.
PredKnown == <<D_abcdefgh, D_abcdefg, D_bcdefgh, D_abcdef, D_cdefgh, D_bcdef>>
\* The URLs asked about: one similar to all six, one at the floor of the
\* first, and one of a domain that may have a record of its own.
PredNetlocs == {S_www \o <<"b", "c", "d", "e", "f", "g">>,
                <<"a", "b", "c", "d", "e", "x", "y", "z", "w">>,
                S_www \o D_bcdef}
PredSigs == {"P1", "P2"}
\* The signatures found on the page: never empty when predict_pattern is called.
PredAvailable == {<<"P1">>, <<"P2", "P1">>, <<"P3">>}

\* One choice per known domain: absent (0 successes), or a pattern and a count
\* of 1 or MaxSuccess.
PredChoices == [1..Len(PredKnown) -> [pattern : PredSigs, success_count : {0, 1, MaxSuccess}]]

KbOfChoice(c) ==
    LET present == SelectSeq([i \in 1..Len(PredKnown) |-> i], LAMBDA i : c[i].success_count > 0)
    IN  [k \in 1..Len(present) |->
            [domain |-> PredKnown[present[k]], pattern |-> c[present[k]].pattern,
             success_count |-> c[present[k]].success_count,
             total_listings |-> c[present[k]].success_count]]

InitPredict ==
    /\ \E c \in PredChoices :
        /\ \A i \in 1..Len(PredKnown) : c[i].success_count = 0 => c[i].pattern = "P1"
        /\ patterns = KbOfChoice(c)
    /\ db_patterns = {} /\ db_history = <<>> /\ loaded = patterns /\ log = <<>>
    /\ before = patterns
    /\ predUrl \in PredNetlocs
    /\ predAvailable \in PredAvailable
    /\ predicted = "idle"
    /\ SimIdle /\ SigIdle /\ DetIdle /\ CrawlIdle /\ ExtIdle /\ AuxIdle

CallPredictPattern ==
    /\ predicted = "idle"
    /\ predicted' = PredictPattern(patterns, predUrl, predAvailable)
    /\ UNCHANGED <<predUrl, predAvailable, kbVars, simVars, sigVars, detVars, crawlVars, extVars, auxVars>>

NextPredict == CallPredictPattern

SpecPredict == InitPredict /\ [][NextPredict]_vars

\* The prediction as the claim words it, over the indices of self.patterns:
\* sim gives each known domain's similarity to the domain asked about.
PredSimilarities == [i \in 1..Len(patterns) |->
                        DomainSimilarity(DomainOf(predUrl), patterns[i].domain)]
PredEligible(sim) == {i \in DOMAIN sim : 10 * sim[i][1] > 3 * sim[i][2]}
\* The ways of taking the 5 most similar: equal similarities may go either way.
PredTopSets(sim) ==
    LET eligible == PredEligible(sim)
        k == IF Cardinality(eligible) < 5 THEN Cardinality(eligible) ELSE 5
    IN  {T \in SUBSET eligible :
            /\ Cardinality(T) = k
            /\ \A i \in T, j \in eligible \ T : ~RatLess(sim[i], sim[j])}
RECURSIVE PredWeightSum(_, _, _)
PredWeightSum(sim, T, q) ==
    IF T = {} THEN <<0, 1>>
    ELSE LET i == CHOOSE k \in T : TRUE
             rest == PredWeightSum(sim, T \ {i}, q)
         IN  IF patterns[i].pattern = q
             THEN RatAdd(rest, RatTimesInt(sim[i], patterns[i].success_count))
             ELSE rest
PredCandidates(T) == {patterns[i].pattern : i \in T} \cap SeqRange(predAvailable)

\* C6: for a domain with no exact record, predict_pattern keeps the known
\* domains of trigram similarity strictly greater than 0.3, takes the 5 most
\* similar, sums similarity x success_count per signature over those whose
\* pattern is in available_patterns, and returns the signature of the highest
\* sum; it returns null when no known domain clears the floor or none of the
\* top-5 domains' patterns is available.
PredictionIsBestWeighted ==
    (predicted # "idle" /\ ~KbHas(patterns, DomainOf(predUrl))) =>
        LET sim == PredSimilarities
        IN  \E T \in PredTopSets(sim) :
                LET candidates == PredCandidates(T)
                    sum == [q \in candidates |-> PredWeightSum(sim, T, q)]
                IN  IF candidates = {} THEN predicted = None
                    ELSE /\ predicted \in candidates
                         /\ \A q \in candidates : ~RatLess(sum[predicted], sum[q])

\* Six known domains clear the floor, so one is cut; both signatures are
\* candidates, and the winner is not the pattern of the most similar domain.
PredictionIsBestWeightedWitness ==
    /\ predicted \in PredSigs
    /\ ~KbHas(patterns, DomainOf(predUrl))
    /\ LET sim == PredSimilarities
       IN  /\ Cardinality(PredEligible(sim)) = 6
           /\ \A T \in PredTopSets(sim) : PredCandidates(T) = PredSigs
           /\ \E i \in PredEligible(sim) :
                /\ \A j \in PredEligible(sim) : ~RatLess(sim[i], sim[j])
                /\ patterns[i].pattern # predicted

\* The weight a known domain adds to the score of its pattern when
\* predict_pattern is asked about target with the signatures available: its
\* similarity x success_count if it is among the top 5 similar domains and its
\* pattern is available, and nothing otherwise.
Contribution(kb, d, target, available) ==
    LET top == Top(FindSimilarDomains(kb, target))
        rec == kb[KbIndex(kb, d)]
    IN  IF /\ \E k \in 1..Len(top) : top[k].domain = d
           /\ rec.pattern \in SeqRange(available)
        THEN RatTimesInt(DomainSimilarity(target, d), rec.success_count)
        ELSE <<0, 1>>

KbTargets == {<<"b", "c", "d", "e">>, <<"a", "b", "c", "f">>}
KbAvailable == {<<"P1">>, <<"P2">>, <<"P1", "P2">>}

\* C8: a further successful record_success for a known domain never lowers
\* the weight (similarity x success_count) the domain contributes to the
\* weighted pattern score predict_pattern computes for a similar domain.
InfluenceNeverLowered ==
    (/\ log # <<>>
     /\ log[Len(log)].fault = "none"
     /\ KbHas(before, log[Len(log)].domain)) =>
        \A target \in KbTargets, available \in KbAvailable :
            ~RatLess(Contribution(patterns, log[Len(log)].domain, target, available),
                     Contribution(before, log[Len(log)].domain, target, available))

\* A known domain has had a further success and its weight for a similar
\* domain has risen.
InfluenceNeverLoweredWitness ==
    /\ log # <<>>
    /\ log[Len(log)].fault = "none"
    /\ KbHas(before, log[Len(log)].domain)
    /\ \E target \in KbTargets, available \in KbAvailable :
        /\ RatLess(<<0, 1>>, Contribution(before, log[Len(log)].domain, target, available))
        /\ RatLess(Contribution(before, log[Len(log)].domain, target, available),
                   Contribution(patterns, log[Len(log)].domain, target, available))

(***************************************************************************)
(* Specification SpecSim: _domain_similarity applied to any two strings    *)
(***************************************************************************)
MaxSimLen == 4
SimChars == {"a", "b"}
SimStrings == StringsUpTo(SimChars, MaxSimLen)

InitSim ==
    /\ simA \in SimStrings
    /\ simB \in SimStrings
    /\ simAB = None
    /\ simBA = None
    /\ SigIdle /\ DetIdle /\ KbIdle /\ PredIdle /\ CrawlIdle /\ ExtIdle /\ AuxIdle

ComputeSimilarity ==
    /\ simAB = None
    /\ simAB' = DomainSimilarity(simA, simB)
    /\ simBA' = DomainSimilarity(simB, simA)
    /\ UNCHANGED <<simA, simB, sigVars, detVars, kbVars, predVars, crawlVars, extVars, auxVars>>

NextSim == ComputeSimilarity

SpecSim == InitSim /\ [][NextSim]_vars

\* C7: trigram similarity is symmetric: _domain_similarity(A, B) equals
\* _domain_similarity(B, A) for any two strings, the empty string and strings
\* shorter than 3 characters included.
SimilaritySymmetric ==
    simAB # None => RatEq(simAB, simBA)

\* Two different strings, one shorter than 3 characters, and two that share some
\* but not all trigrams, have been compared.
SimilaritySymmetricWitness ==
    /\ simAB # None
    /\ simA # simB
    /\ Len(simA) >= 3 /\ Len(simB) >= 3
    /\ Cardinality(trigrams(simA)) # Cardinality(trigrams(simB))
    /\ simAB[1] > 0
    /\ simAB[1] < simAB[2]

(***************************************************************************)
(* The crawl: SmartExtractor, scrape_with_learning, scrape_broker          *)
(***************************************************************************)
\* What the crawl reads from an element besides the fields of its signature:
\*   href       the address its link resolves to
\*   realEstate RE_REAL_ESTATE matches its text
\*   hints      PRICE_RE or looks_businessy matches its text
\*   vertical   matches_vertical accepts the listing extracted from it
U_skip == "/contact"
MinExtractText == 30

\* SmartExtractor.extract returns a listing rather than None.  The text joined
\* with spaces is at least as long as the stripped text.
Extracts(el) ==
    ~(el.textLen < MinExtractText \/ ~el.link \/ el.href = U_skip)

\* SmartExtractor.extract: the listing, reduced to what the crawl reads of it.
Extract(el) ==
    [url |-> el.href, realEstate |-> el.realEstate, hints |-> el.hints,
     vertical |-> el.vertical]

\* listings = [extract(el) for el in pattern['elements'] if extract(el)]
ExtractAll(elements) ==
    LET kept == SelectSeq(elements, Extracts)
    IN  [i \in 1..Len(kept) |-> Extract(kept[i])]

\* The cached-pattern loop of lines 684-694: the listings of the pattern whose
\* signature is the cached one; signatures are the keys of a dict, so at most
\* one pattern matches.
CachedListings(found, cachedSig) ==
    LET match == SelectSeq(found, LAMBDA p : p.signature = cachedSig)
    IN  IF match = <<>> THEN <<>> ELSE ExtractAll(match[1].elements)

\* patterns.remove(p); patterns.insert(0, p) for the first p of signature sig
MoveFirst(found, sig) ==
    LET match == SelectSeq(found, LAMBDA p : p.signature = sig)
        rest == SelectSeq(found, LAMBDA p : p.signature # sig)
    IN  IF match = <<>> THEN found ELSE <<match[1]>> \o rest

PatternsTried == 3

\* A plausible slip: pattern_used is set for the first pattern tried, before
\* its listings are looked at.
FirstExtractingOrFirst(ps) ==
    IF ps = <<>> THEN [listings |-> <<>>, signature |-> <<>>]
    ELSE [listings |-> ExtractAll(Head(ps).elements), signature |-> Head(ps).signature]

\* The loop of lines 716-729: the first of the patterns that yields listings.
\* An empty signature stands for pattern_used = None.
RECURSIVE FirstExtracting(_)
FirstExtracting(ps) ==
    IF ps = <<>> THEN [listings |-> <<>>, signature |-> <<>>]
    ELSE IF ExtractAll(Head(ps).elements) # <<>>
         THEN [listings |-> ExtractAll(Head(ps).elements),
               signature |-> Head(ps).signature]
         ELSE FirstExtracting(Tail(ps))

\* Body applied to value, with value computed once.
Bind(value, Body(_)) == CHOOSE result \in {Body(v) : v \in {value}} : TRUE

\* A plausible slip: the cached pattern is given its priority on every page.
UseCacheEveryPage(kb, d, pages_scraped) == KbHas(kb, d)

\* if cached and pages_scraped == 0
UseCache(kb, d, pages_scraped) == KbHas(kb, d) /\ pages_scraped = 0

\* Lines 676-732 of one loop iteration, given found = find_patterns(soup): the
\* page's listings and the pattern that gave them (empty: the loop breaks),
\* whether the pattern is the cached one, and whether predict_pattern returned
\* a value.
ScrapeFound(kb, netloc, found, pages_scraped) ==
    LET d == DomainOf(netloc)
        useCache == UseCache(kb, d, pages_scraped)
        cachedSig == kb[KbIndex(kb, d)].pattern
        fromCache == IF useCache THEN CachedListings(found, cachedSig) ELSE <<>>
        sigs == [i \in 1..Len(found) |-> found[i].signature]
        predicts == found # <<>> /\ pages_scraped = 0 /\ HasPrediction(kb, netloc, sigs)
        ordered == IF predicts THEN MoveFirst(found, PredictPattern(kb, netloc, sigs))
                   ELSE found
        Tried(used) ==
            Bind(FirstExtracting(SubSeq(ordered, 1,
                     IF Len(found) < PatternsTried THEN Len(found) ELSE PatternsTried)),
                 LAMBDA tried : [listings |-> tried.listings,
                                 pattern_used |-> tried.signature,
                                 cached |-> FALSE, predicted |-> used])
    IN  IF fromCache # <<>>
        THEN [listings |-> fromCache, pattern_used |-> cachedSig, cached |-> TRUE,
              predicted |-> FALSE]
        ELSE Bind(predicts, Tried)

\* Lines 672-732 of one loop iteration on the page shown.
ScrapePage(kb, netloc, page, pages_scraped) ==
    Bind(FindPatterns(page), LAMBDA found : ScrapeFound(kb, netloc, found, pages_scraped))

\* hashlib.md5(...).hexdigest(): a digest is taken to identify its input.
Md5(text) == <<"md5", text>>

\* SelfLearningScraper.normalize_to_db_format, reduced to the fields the crawl
\* reads; of description, which keeps the listing's text, whether
\* RE_REAL_ESTATE matches the text.
NormalizeToDbFormat(listing, account) ==
    [id |-> Md5(listing.url), listing_url |-> listing.url, broker_account |-> account,
     realEstate |-> listing.realEstate]

\* The filter of lines 842-848.
Include(listing, pattern_used) ==
    IF pattern_used THEN ~listing.realEstate ELSE listing.hints

\* A plausible slip: the listing is added without asking self.seen_ids.
AcceptOneUnchecked(listing, pattern_used, account, acc) ==
    LET normalized == NormalizeToDbFormat(listing, account)
    IN  IF ~Include(listing, pattern_used) \/ ~listing.vertical
        THEN acc
        ELSE [seen_ids |-> acc.seen_ids \cup {normalized.id},
              all_listings |-> Append(acc.all_listings, normalized),
              business_count |-> acc.business_count + 1]

\* The body of the loop of lines 839-865 for one listing.  acc holds
\* self.seen_ids, self.all_listings and business_count.
AcceptOne(listing, pattern_used, account, acc) ==
    LET normalized == NormalizeToDbFormat(listing, account)
    IN  IF ~Include(listing, pattern_used) \/ ~listing.vertical
           \/ normalized.id \in acc.seen_ids
        THEN acc
        ELSE [seen_ids |-> acc.seen_ids \cup {normalized.id},
              all_listings |-> Append(acc.all_listings, normalized),
              business_count |-> acc.business_count + 1]

\* The loop of lines 839-865 over listings[lo..hi], in order: the first half,
\* then the second half from where the first ended.
RECURSIVE AcceptFrom(_, _, _, _, _, _)
AcceptFrom(listings, lo, hi, pattern_used, account, acc) ==
    IF lo > hi THEN acc
    ELSE IF lo = hi THEN AcceptOne(listings[lo], pattern_used, account, acc)
    ELSE LET mid == (lo + hi) \div 2
         IN  CHOOSE after \in
                 {AcceptFrom(listings, mid + 1, hi, pattern_used, account, half) :
                     half \in {AcceptFrom(listings, lo, mid, pattern_used, account, acc)}} :
                 TRUE

\* The loop of lines 824-829 over the vertical-matched listings of a file.
RECURSIVE AddMatched(_, _, _)
AddMatched(matched, account, acc) ==
    IF matched = <<>> THEN acc
    ELSE LET normalized == NormalizeToDbFormat(Head(matched), account)
         IN  IF normalized.id \in acc.seen_ids
             THEN AddMatched(Tail(matched), account, acc)
             ELSE AddMatched(Tail(matched), account,
                     [acc EXCEPT !.seen_ids = @ \cup {normalized.id},
                                 !.all_listings = Append(@, normalized)])

\* FailureAnalyzer.classify_failure.  error is what the checks read of the
\* error text, http_status is 0 for None, html is what they read of the page
\* content (present: not None and not empty).
SmallHtml == 10000
ClassifyFailureTextFirst(error, http_status, html) ==
    IF error.timeout THEN "TIMEOUT"
    ELSE IF error.ssl THEN "SSL_ERROR"
    ELSE IF http_status = 403 THEN "HTTP_403"
    ELSE IF http_status = 404 THEN "HTTP_404"
    ELSE IF http_status # 0 /\ http_status >= 500 THEN "HTTP_500"
    ELSE IF html.present /\ html.captcha THEN "CAPTCHA"
    ELSE IF error.no_pattern THEN "NO_PATTERN"
    ELSE IF html.present /\ html.length < SmallHtml THEN "JAVASCRIPT_HEAVY"
    ELSE "UNKNOWN"

ClassifyFailure(error, http_status, html) ==
    IF http_status = 403 THEN "HTTP_403"
    ELSE IF http_status = 404 THEN "HTTP_404"
    ELSE IF http_status # 0 /\ http_status >= 500 THEN "HTTP_500"
    ELSE IF error.timeout THEN "TIMEOUT"
    ELSE IF error.ssl THEN "SSL_ERROR"
    ELSE IF html.present /\ html.captcha THEN "CAPTCHA"
    ELSE IF error.no_pattern THEN "NO_PATTERN"
    ELSE IF html.present /\ html.length < SmallHtml THEN "JAVASCRIPT_HEAVY"
    ELSE "UNKNOWN"

FailureTypes == {"HTTP_403", "HTTP_404", "HTTP_500", "TIMEOUT", "SSL_ERROR", "CAPTCHA",
                 "NO_PATTERN", "JAVASCRIPT_HEAVY", "UNKNOWN"}

\* FailureAnalyzer.log_failure: table scraper_failures after the call; the
\* insert may raise, which the call swallows.
LogFailure(table, broker, failure_type, written) ==
    IF written
    THEN Append(table, [broker_account |-> broker.account, failure_type |-> failure_type])
    ELSE table

(***************************************************************************)
(* Specifications Spec and SpecCrawl: a run over regular brokers           *)
(***************************************************************************)
max_pages == 100
EmptyLimit == 3

\* A plausible slip: the comparison with the cap is off by one.
LoopContinuesInclusive(pages_scraped) == pages_scraped <= max_pages

\* while pages_scraped < max_pages
LoopContinues(pages_scraped) == pages_scraped < max_pages

\* Listing cards: repeated elements deep enough to be detected, each with a
\* link and more than 50 characters of text.
CardDepth == 5
CardText == 60
Card(href, realEstate, hints, vertical) ==
    [name |-> T_div, depth |-> CardDepth, childTags |-> <<T_a>>, link |-> TRUE,
     img |-> FALSE, textLen |-> CardText, price |-> FALSE, href |-> href,
     realEstate |-> realEstate, hints |-> hints, vertical |-> vertical]
Item(href, realEstate, hints, vertical) ==
    [Card(href, realEstate, hints, vertical) EXCEPT !.name = T_li]

SigCard == GetSignature(Card("/l/1", FALSE, TRUE, TRUE))
SigItem == GetSignature(Item("/l/1", FALSE, TRUE, TRUE))

\* The pages a site may show.
Business == Card("/l/1", FALSE, TRUE, TRUE)
PageSingle == <<Business, Business, Business>>
PageMixed == <<Business, Card("/l/2", TRUE, TRUE, TRUE), Card("/l/3", FALSE, TRUE, FALSE),
               Card("/l/4", FALSE, FALSE, TRUE)>>
PageNoPattern == <<Business, Business>>
PageNoListing == <<Card(U_skip, FALSE, TRUE, TRUE), Card(U_skip, FALSE, TRUE, TRUE),
                   Card(U_skip, FALSE, TRUE, TRUE)>>
PageTwoPatterns == PageSingle \o <<Item("/l/5", FALSE, TRUE, TRUE),
                                   Item("/l/5", FALSE, TRUE, TRUE),
                                   Item("/l/5", FALSE, TRUE, TRUE)>>
PageItemsNoListing == <<Item(U_skip, FALSE, TRUE, TRUE), Item(U_skip, FALSE, TRUE, TRUE),
                        Item(U_skip, FALSE, TRUE, TRUE)>> \o PageSingle
CrawlPages == {PageSingle, PageMixed, PageNoPattern, PageNoListing, PageTwoPatterns,
               PageItemsNoListing}

\* What _download_and_parse_file returns: nothing (no download link, a failed
\* download, no row classified as a business), or the classified rows.
FileRow(vertical) ==
    [url |-> "/f.csv#row0", realEstate |-> FALSE, hints |-> TRUE, vertical |-> vertical]
FileChoices == {<<>>, <<FileRow(TRUE)>>, <<FileRow(FALSE)>>}

\* What classify_failure reads of an exception and of the page content.
ErrTimeout == [timeout |-> TRUE, ssl |-> FALSE, no_pattern |-> FALSE]
ErrOther == [timeout |-> FALSE, ssl |-> FALSE, no_pattern |-> FALSE]
RunErrors == {ErrTimeout, ErrOther}
NoHtml == [present |-> FALSE, captcha |-> FALSE, length |-> 0]
HtmlShort == [present |-> TRUE, captcha |-> FALSE, length |-> SmallHtml - 1]
RunHtml == {NoHtml, HtmlShort}

\* A site of specification Spec has at most MaxSitePages pages, each of them
\* any page.  A site of SpecCrawl offers next pages without end: its first
\* MaxVaried pages are any pages, and after them it repeats the last one.
MaxSitePages == 2
MaxVaried == 1
Endless == max_pages + 1

Broker(account, netloc) == [account |-> account, url |-> netloc]
RunBrokers == {<<Broker("A1", N_abcd), Broker("A2", N_abce)>>,
               <<Broker("A1", N_abce), Broker("A2", N_www_abcd)>>}
CrawlBrokers == {<<Broker("A1", N_abcd)>>, <<Broker("A1", N_abce)>>}

\* Table scraper_patterns before the run: empty, or holding the item pattern
\* for domain abcd.
CrawlStored ==
    {{}, {[domain |-> N_abcd, pattern_signature |-> SigItem, success_count |-> 1,
           total_listings |-> 1]}}

ZeroStats ==
    [attempted |-> 0, success |-> 0, failed |-> 0, listings |-> 0,
     ml_predictions_used |-> 0, new_patterns_learned |-> 0,
     failures_by_type |-> [t \in FailureTypes |-> 0]]

NoCrawl == [all_listings |-> <<>>, pages_scraped |-> 0, current_url |-> 0,
            visited_urls |-> {}, consecutive_empty |-> 0, pattern_used |-> <<>>]
NoTrace == [iterations |-> 0, fetched |-> 0, uniform |-> TRUE, firstFresh |-> FALSE,
            urls |-> <<>>, revisit |-> FALSE]

\* The sources of a whole run: one or two specialized sources, then the
\* regular ones, whose sites have at most RunSitePages pages.
RunSitePages == 1
N_murphy == <<"m", "u", "r", "p", "h", "y">>
N_tworld == <<"t", "w", "o", "r", "l", "d">>
SpecializedLists == {<<Broker("S1", N_murphy)>>,
                     <<Broker("S1", N_murphy), Broker("S2", N_tworld)>>}
RunLists == RunBrokers \cup {<<>>}

\* A specialized listing as run_async reads it: its identifier ('id', else
\* 'listing_id', NoId when it has neither) and what matches_vertical says.
NoId == <<"KeyError">>
SpecializedListing(id, vertical) == [id |-> id, vertical |-> vertical]

\* What scrape_specialized_broker may do for a source.  A specialized listing
\* may carry the identifier of a listing a regular source shows too.
SpecializedReturns(listings) == [raises |-> FALSE, listings |-> listings]
SpecializedResults ==
    {[raises |-> TRUE, listings |-> <<>>],
     SpecializedReturns(<<>>),
     SpecializedReturns(<<SpecializedListing(Md5("/l/1"), TRUE),
                          SpecializedListing(Md5("/l/1"), TRUE)>>),
     SpecializedReturns(<<SpecializedListing(Md5("/s/1"), FALSE)>>),
     SpecializedReturns(<<SpecializedListing(Md5("/s/1"), TRUE),
                          SpecializedListing(NoId, TRUE)>>)}

\* run_async after the sources are split: the specialized phase if there is a
\* specialized source, else the regular phase if there is a regular one.
FirstPhase(specialized, regular) ==
    IF specialized # <<>> THEN "specialized"
    ELSE IF regular # <<>> THEN "start" ELSE "done"

\* The scraper and its knowledge base after construction, with the sources
\* of the run.
RunLoaded(specializedLists, brokerLists, limit, varied) ==
    /\ specialized_brokers \in specializedLists
    /\ brokers \in brokerLists
    /\ bi = 1
    /\ open_pages = {}
    /\ stats = ZeroStats
    /\ all_listings = <<>>
    /\ seen_ids = {}
    /\ crawl = NoCrawl
    /\ site = [page |-> <<>>, served |-> 0, limit |-> limit, varied |-> varied]
    /\ db_failures = <<>>
    /\ trace = NoTrace
    /\ outcomes = <<>>
    /\ attempts = <<>>
    /\ db_patterns \in CrawlStored
    /\ db_history = <<>>
    /\ patterns = LoadRows(db_patterns)
    /\ loaded = patterns
    /\ log = <<>>
    /\ before = patterns
    /\ SimIdle /\ SigIdle /\ DetIdle /\ PredIdle /\ ExtIdle

InitRun(specializedLists, brokerLists, limit, varied) ==
    /\ RunLoaded(specializedLists, brokerLists, limit, varied)
    /\ pc = FirstPhase(specialized_brokers, brokers)
    /\ AuxIdle

Init == InitRun({<<>>}, RunBrokers, MaxSitePages, MaxSitePages)
InitCrawl == InitRun({<<>>}, CrawlBrokers, Endless, MaxVaried)
InitAll == InitRun(SpecializedLists, RunLists, RunSitePages, RunSitePages)

\* run_async after scrape_broker returns: the next broker, or the end.
NextBroker ==
    /\ bi' = bi + 1
    /\ pc' = IF bi = Len(brokers) THEN "done" ELSE "start"

\* A plausible slip: the page is closed at the end of the function body and
\* the early returns leave without closing it.
AfterFinallySkippedByReturn(open, i, path, closes) ==
    IF path \in {"not200", "file"} \/ closes = "raises" THEN open ELSE open \ {i}

\* The finally clause of scrape_broker, lines 909-911, reached on the exit
\* path given with the page of source i open: the pages open after it.  A
\* close that raises leaves the page as it was.
AfterFinally(open, i, path, closes) ==
    IF closes = "raises" THEN open ELSE open \ {i}

\* What page.close() does: it returns, or it raises.
CloseOutcomes == {"ok", "raises"}

\* scrape_broker leaves through its finally clause.  An exception of
\* page.close() leaves scrape_broker and, nothing catching it, the loop of
\* run_async and run_async itself.
Leave(path, closes) ==
    /\ open_pages' = AfterFinally(open_pages, bi, path, closes)
    /\ IF closes = "raises"
       THEN pc' = "aborted" /\ bi' = bi
       ELSE NextBroker

Outcome(path, fresh, accepted, calls, fault, raised, closes) ==
    [path |-> path, fresh |-> fresh, accepted |-> accepted, calls |-> calls,
     fault |-> fault, raised |-> raised, close |-> closes,
     success |-> stats'.success - stats.success,
     failed |-> stats'.failed - stats.failed]

\* A plausible slip: the clause forgets to count the source as failed.
HandleExceptionUncounted(st, error, http_status, html) ==
    [st EXCEPT !.failures_by_type[ClassifyFailure(error, http_status, html)] = @ + 1]

\* The except clause of scrape_broker, lines 886-908: self.stats after it.
HandleException(st, error, http_status, html) ==
    [st EXCEPT !.failures_by_type[ClassifyFailure(error, http_status, html)] = @ + 1,
               !.failed = @ + 1]

\* The loop of lines 1166-1173 over the matched listings; a listing without
\* identifier raises KeyError, and the listings before it stay added.
RECURSIVE AddSpecialized(_, _)
AddSpecialized(matched, acc) ==
    IF matched = <<>> THEN acc
    ELSE IF Head(matched).id = NoId THEN [acc EXCEPT !.raised = TRUE]
    ELSE IF Head(matched).id \in acc.seen_ids THEN AddSpecialized(Tail(matched), acc)
    ELSE AddSpecialized(Tail(matched),
             [acc EXCEPT !.seen_ids = @ \cup {Head(matched).id},
                         !.all_listings = Append(@, [id |-> Head(matched).id])])

\* run_async, lines 1145-1193: one specialized source.  result is what
\* scrape_specialized_broker does: it raises, or returns listings (None and
\* the empty list alike are falsy).
SpecializedBroker ==
    /\ pc = "specialized"
    /\ attempts' = Append(attempts, specialized_brokers[bi].account)
    /\ \E result \in SpecializedResults :
        LET matched == SelectSeq(result.listings, LAMBDA l : l.vertical)
            acc == AddSpecialized(matched, [seen_ids |-> seen_ids,
                                            all_listings |-> all_listings,
                                            raised |-> FALSE])
            tried == [stats EXCEPT !.attempted = @ + 1]
        IN  /\ seen_ids' = acc.seen_ids
            /\ all_listings' = acc.all_listings
            /\ stats' = IF result.raises \/ matched = <<>> \/ acc.raised
                        THEN [tried EXCEPT !.failed = @ + 1]
                        ELSE [tried EXCEPT !.success = @ + 1,
                                           !.listings = @ + Len(matched)]
    /\ IF bi < Len(specialized_brokers)
       THEN bi' = bi + 1 /\ pc' = "specialized"
       ELSE bi' = 1 /\ pc' = FirstPhase(<<>>, brokers)
    /\ UNCHANGED kbVars
    /\ UNCHANGED <<specialized_brokers, brokers, open_pages, crawl, site, db_failures,
                   trace, outcomes, simVars, sigVars, detVars, predVars, extVars, auxVars>>

\* scrape_broker, lines 785-798: the source is counted as attempted and its
\* page is opened.  When new_page raises, page is None: the except clause
\* classifies without page content and nothing is closed.
BrokerStarts ==
    /\ pc = "start"
    /\ attempts' = Append(attempts, brokers[bi].account)
    /\ \E new_page \in {"ok", "raises"} :
        IF new_page = "ok"
        THEN /\ stats' = [stats EXCEPT !.attempted = @ + 1]
             /\ open_pages' = open_pages \cup {bi}
             /\ pc' = "opened"
             /\ UNCHANGED <<bi, db_failures, outcomes>>
        ELSE /\ \E error \in RunErrors, written \in BOOLEAN :
                /\ stats' = HandleException([stats EXCEPT !.attempted = @ + 1],
                                            error, 0, NoHtml)
                /\ db_failures' = LogFailure(db_failures, brokers[bi],
                                             ClassifyFailure(error, 0, NoHtml), written)
             /\ outcomes' = Append(outcomes,
                                Outcome("raised", FALSE, 0, 0, "none", FALSE, "none"))
             /\ UNCHANGED open_pages
             /\ NextBroker
    /\ UNCHANGED kbVars
    /\ UNCHANGED <<specialized_brokers, brokers, all_listings, seen_ids, crawl, site,
                   trace, simVars, sigVars, detVars, predVars, extVars, auxVars>>

\* scrape_broker: the first goto raises.
BrokerGotoRaises ==
    /\ pc = "opened"
    /\ \E error \in RunErrors, html \in RunHtml, written \in BOOLEAN,
          closes \in CloseOutcomes :
        /\ stats' = HandleException(stats, error, 0, html)
        /\ db_failures' = LogFailure(db_failures, brokers[bi],
                                     ClassifyFailure(error, 0, html), written)
        /\ outcomes' = Append(outcomes,
                           Outcome("raised", FALSE, 0, 0, "none", FALSE, closes))
        /\ Leave("raised", closes)
    /\ UNCHANGED kbVars
    /\ UNCHANGED <<specialized_brokers, brokers, all_listings, seen_ids, crawl, site,
                   trace, attempts, simVars, sigVars, detVars, predVars, extVars, auxVars>>

\* scrape_broker: no response, or a status other than 200.
BrokerNot200 ==
    /\ pc = "opened"
    /\ stats' = [stats EXCEPT !.failed = @ + 1]
    /\ \E closes \in CloseOutcomes :
        /\ outcomes' = Append(outcomes,
                           Outcome("not200", FALSE, 0, 0, "none", FALSE, closes))
        /\ Leave("not200", closes)
    /\ UNCHANGED kbVars
    /\ UNCHANGED <<specialized_brokers, brokers, all_listings, seen_ids, crawl, site,
                   db_failures, trace, attempts, simVars, sigVars, detVars, predVars, extVars, auxVars>>

\* scrape_broker: the page links a file whose rows give listings.
BrokerFileFallback ==
    /\ pc = "opened"
    /\ \E listings \in FileChoices \ {<<>>}, closes \in CloseOutcomes :
        LET matched == SelectSeq(listings, LAMBDA l : l.vertical)
            acc == AddMatched(matched, brokers[bi].account,
                              [seen_ids |-> seen_ids, all_listings |-> all_listings])
        IN  /\ stats' = [stats EXCEPT !.success = @ + 1,
                                      !.listings = @ + Len(matched)]
            /\ seen_ids' = acc.seen_ids
            /\ all_listings' = acc.all_listings
            /\ outcomes' = Append(outcomes,
                               Outcome("file", FALSE, Len(matched), 0, "none", FALSE,
                                       closes))
            /\ Leave("file", closes)
    /\ UNCHANGED kbVars
    /\ UNCHANGED <<specialized_brokers, brokers, crawl, site, db_failures, trace,
                   attempts, simVars, sigVars, detVars, predVars, extVars, auxVars>>

\* scrape_broker: status 200 and no listings from a file; scrape_with_learning
\* starts on the page just loaded.
BrokerCrawlStarts ==
    /\ pc = "opened"
    /\ \E page \in CrawlPages :
        site' = [site EXCEPT !.page = page, !.served = 1]
    /\ crawl' = NoCrawl
    /\ trace' = NoTrace
    /\ pc' = "crawl"
    /\ UNCHANGED kbVars
    /\ UNCHANGED <<specialized_brokers, brokers, bi, open_pages, stats, all_listings,
                   seen_ids, db_failures, outcomes, attempts,
                   simVars, sigVars, detVars, predVars, extVars, auxVars>>

\* scrape_with_learning returns (all_listings, pattern_used); its other locals
\* end with the call.
Returned(listings, pattern_used) ==
    [NoCrawl EXCEPT !.all_listings = listings, !.pattern_used = pattern_used]

\* A plausible slip: the loop does not ask visited_urls.
RevisitNever(current_url, visited_urls) == FALSE

\* if current_url in visited_urls
Revisit(current_url, visited_urls) == current_url \in visited_urls

\* One iteration of the while loop of scrape_with_learning.  goto is the
\* outcome of page.goto on a later page, content the page it loads, next what
\* _find_next_page resolves.
CrawlPage ==
    /\ pc = "crawl"
    /\ \E goto \in {"ok", "raises"}, content \in CrawlPages :
        \E r \in {ScrapePage(patterns, brokers[bi].url, content, crawl.pages_scraped)} :
        LET later == crawl.pages_scraped > 0
            revisit == Revisit(crawl.current_url, crawl.visited_urls)
            visited == crawl.visited_urls \cup {crawl.current_url}
            found == Len(crawl.all_listings \o r.listings) - Len(crawl.all_listings)
            empties == IF found = 0 THEN crawl.consecutive_empty + 1 ELSE 0
            scraped == crawl.pages_scraped + 1
        IN  \* the site: a first page is the one already loaded, and a page after
            \* the varied ones repeats the last
            /\ ~later => content = site.page /\ goto = "ok"
            /\ site.served >= site.varied => content = site.page
            /\ (revisit \/ goto = "raises") => content = site.page
            /\ revisit => goto = "ok"
            /\ IF revisit
               THEN \* current_url in visited_urls: break
                    /\ pc' = "finish"
                    /\ crawl' = Returned(crawl.all_listings, crawl.pattern_used)
                    /\ trace' = [trace EXCEPT !.iterations = @ + 1, !.revisit = TRUE]
                    /\ UNCHANGED <<site, stats>>
               ELSE IF goto = "raises"
               THEN \* page.goto raises: break
                    /\ pc' = "finish"
                    /\ crawl' = Returned(crawl.all_listings, crawl.pattern_used)
                    /\ trace' = [trace EXCEPT !.iterations = @ + 1, !.uniform = FALSE]
                    /\ UNCHANGED <<site, stats>>
               ELSE /\ site' = [site EXCEPT !.page = content,
                                            !.served = IF later THEN @ + 1 ELSE @]
                    /\ stats' = [stats EXCEPT !.ml_predictions_used =
                                                  IF r.predicted THEN @ + 1 ELSE @]
                    /\ IF r.pattern_used = <<>>
                       THEN \* no pattern, or none that yields a listing: break
                            /\ crawl' = Returned(crawl.all_listings, <<>>)
                            /\ pc' = "finish"
                            /\ trace' = [iterations |-> trace.iterations + 1,
                                         fetched |-> trace.fetched + 1,
                                         uniform |-> FALSE,
                                         firstFresh |-> later /\ trace.firstFresh,
                                         urls |-> Append(trace.urls, crawl.current_url),
                                         revisit |-> FALSE]
                       ELSE IF found = 0 /\ empties >= EmptyLimit
                       THEN \* three consecutive empty pages: break
                            /\ crawl' = Returned(crawl.all_listings, r.pattern_used)
                            /\ pc' = "finish"
                            /\ trace' = [trace EXCEPT
                                             !.iterations = @ + 1, !.fetched = @ + 1,
                                             !.urls = Append(@, crawl.current_url)]
                       ELSE \E next \in {"none", "fresh", "same", "back"} :
                            \* a site of limit pages has no fresh page after them
                            /\ next = "fresh" => site'.served < site.limit
                            \* a link back leads to the first page from a later one
                            /\ next = "back" => crawl.current_url > 0
                            /\ trace' = [iterations |-> trace.iterations + 1,
                                         fetched |-> trace.fetched + 1,
                                         uniform |-> /\ trace.uniform
                                                     /\ content = PageSingle
                                                     /\ next = "fresh",
                                         firstFresh |-> IF later THEN trace.firstFresh
                                                        ELSE ~r.cached,
                                         urls |-> Append(trace.urls, crawl.current_url),
                                         revisit |-> FALSE]
                            /\ IF next # "none" /\ LoopContinues(scraped)
                               THEN /\ crawl' =
                                        [all_listings |-> crawl.all_listings \o r.listings,
                                         pages_scraped |-> scraped,
                                         current_url |-> IF next = "fresh"
                                                         THEN crawl.current_url + 1
                                                         ELSE IF next = "back" THEN 0
                                                         ELSE crawl.current_url,
                                         visited_urls |-> visited,
                                         consecutive_empty |-> empties,
                                         pattern_used |-> r.pattern_used]
                                    /\ pc' = "crawl"
                               ELSE /\ crawl' = Returned(crawl.all_listings \o r.listings,
                                                         r.pattern_used)
                                    /\ pc' = "finish"
    /\ UNCHANGED <<specialized_brokers, brokers, bi, open_pages, all_listings, seen_ids,
                   db_failures, outcomes, attempts,
                   kbVars, simVars, sigVars, detVars, predVars, extVars, auxVars>>

\* scrape_with_learning raises (page.evaluate or page.content fails), and the
\* except clause of scrape_broker takes over.
CrawlRaises ==
    /\ pc = "crawl"
    /\ crawl.current_url \notin crawl.visited_urls
    /\ \E error \in RunErrors, html \in RunHtml, written \in BOOLEAN,
          closes \in CloseOutcomes :
        /\ stats' = HandleException(stats, error, 200, html)
        /\ db_failures' = LogFailure(db_failures, brokers[bi],
                                     ClassifyFailure(error, 200, html), written)
        /\ outcomes' = Append(outcomes,
                           Outcome("raised", trace.firstFresh, 0, 0, "none", FALSE, closes))
        /\ Leave("raised", closes)
    /\ crawl' = NoCrawl
    /\ trace' = NoTrace
    /\ UNCHANGED <<specialized_brokers, brokers, all_listings, seen_ids, site, attempts,
                   kbVars, simVars, sigVars, detVars, predVars, extVars, auxVars>>

\* scrape_broker after scrape_with_learning returned: lines 836-884.
FinishBroker ==
    /\ pc = "finish"
    /\ \E start \in {[seen_ids |-> seen_ids, all_listings |-> all_listings,
                       business_count |-> 0]} :
       \E acc \in {AcceptFrom(crawl.all_listings, 1, Len(crawl.all_listings),
                               crawl.pattern_used # <<>>, brokers[bi].account, start)},
          closes \in CloseOutcomes :
       LET broker == brokers[bi]
           pattern_sig == crawl.pattern_used
           pattern_used == pattern_sig # <<>>
           called == acc.business_count > 0 /\ pattern_used
           counted == IF acc.business_count > 0
                      THEN [stats EXCEPT !.success = @ + 1,
                                         !.listings = @ + acc.business_count]
                      ELSE [stats EXCEPT !.failed = @ + 1]
       IN  /\ seen_ids' = acc.seen_ids
           /\ all_listings' = acc.all_listings
           /\ IF ~called
              THEN /\ stats' = counted
                   /\ outcomes' = Append(outcomes,
                          Outcome("crawl", trace.firstFresh, acc.business_count, 0,
                                  "none", FALSE, closes))
                   /\ UNCHANGED <<kbVars, db_failures>>
              ELSE \E fault \in WriteFaults :
                   LET r == RecordSuccess(patterns, db_patterns, db_history, broker.url,
                                          pattern_sig, acc.business_count, fault)
                   IN  /\ patterns' = r.kb
                       /\ db_patterns' = r.table
                       /\ db_history' = r.history
                       /\ log' = Append(log, [source |-> bi,
                                              domain |-> DomainOf(broker.url),
                                              sig |-> pattern_sig,
                                              n |-> acc.business_count,
                                              fault |-> fault, raised |-> r.raised])
                       /\ before' = patterns
                       /\ UNCHANGED loaded
                       /\ IF r.raised
                          THEN \* the except clause of scrape_broker
                               \E html \in RunHtml, written \in BOOLEAN :
                               /\ stats' = HandleException(counted, ErrOther, 200, html)
                               /\ db_failures' = LogFailure(db_failures, broker,
                                      ClassifyFailure(ErrOther, 200, html), written)
                          ELSE /\ stats' = [counted EXCEPT !.new_patterns_learned = @ + 1]
                               /\ UNCHANGED db_failures
                       /\ outcomes' = Append(outcomes,
                              Outcome("crawl", trace.firstFresh, acc.business_count, 1,
                                      fault, r.raised, closes))
           /\ Leave(IF acc.business_count > 0 THEN "success" ELSE "no_listings", closes)
    /\ crawl' = NoCrawl
    /\ trace' = NoTrace
    /\ UNCHANGED <<specialized_brokers, brokers, site, attempts,
                   simVars, sigVars, detVars, predVars, extVars, auxVars>>

Next ==
    \/ BrokerStarts
    \/ BrokerGotoRaises
    \/ BrokerNot200
    \/ BrokerFileFallback
    \/ BrokerCrawlStarts
    \/ CrawlPage
    \/ CrawlRaises
    \/ FinishBroker

\* A run with specialized sources before the regular ones.
NextAll ==
    \/ SpecializedBroker
    \/ Next

Spec == Init /\ [][Next]_vars
SpecCrawl == InitCrawl /\ [][Next]_vars
SpecAll == InitAll /\ [][NextAll]_vars

(***************************************************************************)
(* C1: for a source whose every page shows the same single listing and     *)
(* always offers a fresh next-page address, scrape_with_learning stops     *)
(* after exactly 3 pages beyond the first: it fetches 1 + 3 pages, no      *)
(* fewer and no more.                                                      *)
(***************************************************************************)
StopsAfterThreeRepeats ==
    (pc \in {"crawl", "finish"} /\ trace.uniform /\ trace.fetched > 0) =>
        /\ trace.fetched <= 1 + EmptyLimit
        /\ pc = "finish" => trace.fetched = 1 + EmptyLimit

(***************************************************************************)
(* C2: whatever the pages and next links a site offers, the loop of        *)
(* scrape_with_learning ends and processes at most max_pages pages: an     *)
(* iteration starts only below the cap, and each iteration either leaves   *)
(* the loop or counts one more page.                                       *)
(***************************************************************************)
PageCapAndTermination ==
    /\ [](pc \in {"crawl", "finish"} =>
            /\ trace.fetched <= trace.iterations
            /\ trace.iterations <= max_pages)
    /\ [](pc = "crawl" =>
            /\ crawl.pages_scraped = trace.iterations
            /\ crawl.pages_scraped < max_pages)
    /\ [][pc = "crawl" =>
            \/ pc' # "crawl"
            \/ crawl'.pages_scraped = crawl.pages_scraped + 1]_vars

\* The cap itself ended a crawl: a site whose every next link was fresh.
PageCapAndTerminationWitness ==
    pc = "finish" /\ trace.fetched = max_pages /\ trace.uniform

(***************************************************************************)
(* C3: if page 1 of a source was extracted with a freshly detected pattern *)
(* (not the cached one) and the source contributes at least one accepted   *)
(* listing, record_success is called exactly once for the source, whatever *)
(* its later pages did.                                                    *)
(***************************************************************************)
FreshPatternIsLearned ==
    \A i \in 1..Len(outcomes) :
        (outcomes[i].path = "crawl" /\ outcomes[i].fresh /\ outcomes[i].accepted > 0) =>
            /\ outcomes[i].calls = 1
            /\ Cardinality({j \in 1..Len(log) : log[j].source = i}) = 1

(***************************************************************************)
(* C5: a write that fails inside record_success does not reach the caller: *)
(* the call returns normally, the source is counted as a success and not   *)
(* as a failure, and the run goes on with the next source.                 *)
(***************************************************************************)
PersistenceFailureContained ==
    \A i \in 1..Len(outcomes) :
        outcomes[i].fault # "none" =>
            /\ ~outcomes[i].raised
            /\ \A j \in 1..Len(log) : log[j].source = i => ~log[j].raised
            /\ outcomes[i].success = 1
            /\ outcomes[i].failed = 0
            /\ outcomes[i].close = "ok" =>
                   /\ bi > i
                   /\ IF bi > Len(brokers) THEN pc = "done"
                      ELSE pc \in {"start", "opened", "crawl", "finish", "aborted"}

\* A write failed for the first source and the second is being crawled.
PersistenceFailureContainedWitness ==
    /\ Len(outcomes) = 1
    /\ outcomes[1].fault # "none"
    /\ bi = 2
    /\ pc = "crawl"
    /\ stats.success = 1
    /\ stats.failed = 0

(***************************************************************************)
(* C11: every regular source that a run counted as failed (a first fetch   *)
(* answered with a status other than 200, no accepted listing, or an       *)
(* exception) has exactly one row in scraper_failures, and the row carries *)
(* a failure type that classify_failure chose in this run.                 *)
(***************************************************************************)
FailedSourceLoggedOnce ==
    \A i \in 1..Len(outcomes) :
        outcomes[i].failed = 1 =>
            LET rows == {j \in 1..Len(db_failures) :
                            db_failures[j].broker_account = brokers[i].account}
            IN  /\ Cardinality(rows) = 1
                /\ \A j \in rows : stats.failures_by_type[db_failures[j].failure_type] > 0

(***************************************************************************)
(* C12: in one run every loaded source, specialized or regular, is         *)
(* attempted exactly once: no account is attempted twice, and when the run *)
(* has ended, however its sources failed, the accounts attempted are the   *)
(* specialized ones followed by the regular ones.                          *)
(***************************************************************************)
Accounts(sources) == [i \in 1..Len(sources) |-> sources[i].account]

EverySourceAttemptedOnce ==
    /\ \A i, j \in 1..Len(attempts) : attempts[i] = attempts[j] => i = j
    /\ pc \in {"done", "aborted"} =>
           attempts = Accounts(specialized_brokers) \o Accounts(brokers)

(***************************************************************************)
(* C13: no listing whose text matches the real-estate pattern is among the *)
(* listings a run of regular sources emits, whether the source was crawled *)
(* by pattern, on whatever page the crawl ended, or read from a file.      *)
(***************************************************************************)
NoRealEstateEmitted ==
    \A i \in 1..Len(all_listings) : ~all_listings[i].realEstate

(***************************************************************************)
(* C14: within one run self.all_listings never holds two records with the  *)
(* same identifier, whichever of the specialized scrapers, the file        *)
(* fallback and the pattern crawl added them, and every identifier emitted *)
(* is in self.seen_ids.                                                    *)
(***************************************************************************)
EmittedIdsDistinct ==
    /\ \A i, j \in 1..Len(all_listings) :
           all_listings[i].id = all_listings[j].id => i = j
    /\ {all_listings[i].id : i \in 1..Len(all_listings)} = seen_ids

\* A run has ended in which a specialized source and a regular source both
\* emitted listings and some listing counted was refused as a duplicate.
EmittedIdsDistinctWitness ==
    /\ pc = "done"
    /\ \E i, j \in 1..Len(all_listings) :
           /\ "broker_account" \notin DOMAIN all_listings[i]
           /\ "broker_account" \in DOMAIN all_listings[j]
    /\ \E k \in 1..Len(outcomes) :
           /\ outcomes[k].path = "crawl"
           /\ outcomes[k].accepted = 1
    /\ stats.listings > Len(all_listings)

(***************************************************************************)
(* Specification SpecIdem: two runs extract the same page of one source    *)
(***************************************************************************)
\* A plausible slip: the run is hashed into the identifier.
NormalizedListingPerRun(listing, account, scraper_run_id, scraped_at) ==
    [id |-> Md5(<<listing.url, scraper_run_id>>), listing_url |-> listing.url,
     broker_account |-> account, scraper_run_id |-> scraper_run_id,
     scraped_at |-> scraped_at]

\* normalize_to_db_format with the bookkeeping fields it takes from the run:
\* self.scraper_run_id and the time of the call.
NormalizedListing(listing, account, scraper_run_id, scraped_at) ==
    [id |-> NormalizeToDbFormat(listing, account).id, listing_url |-> listing.url,
     broker_account |-> account, scraper_run_id |-> scraper_run_id,
     scraped_at |-> scraped_at]

\* The knowledge base a run may start with: nothing, a pattern cached for the
\* source, or a pattern known for a similar domain only.
IdemRecord(domain, sig) ==
    [domain |-> domain, pattern |-> sig, success_count |-> 1, total_listings |-> 1]
IdemKbs == {<<>>, <<IdemRecord(N_abcd, SigItem)>>, <<IdemRecord(N_abcd, SigCard)>>,
            <<IdemRecord(N_abce, SigItem)>>}
IdemRuns == [kb : IdemKbs, scraper_run_id : {"run-1", "run-2"}, scraped_at : {1, 2}]

\* One run over the first page of a source, as scrape_with_learning and the
\* filter of scrape_broker treat it: the pattern used and the records made.
RunOver(page, netloc, account, run) ==
    LET r == ScrapePage(run.kb, netloc, page, 0)
        kept == SelectSeq(r.listings,
                          LAMBDA l : Include(l, r.pattern_used # <<>>) /\ l.vertical)
    IN  [pattern_used |-> r.pattern_used,
         records |-> {NormalizedListing(kept[i], account, run.scraper_run_id,
                                        run.scraped_at) : i \in 1..Len(kept)}]

InitIdem ==
    /\ idem \in [page : CrawlPages, netloc : {N_abcd}, first : IdemRuns,
                  second : IdemRuns, done : {FALSE}]
    /\ SimIdle /\ SigIdle /\ DetIdle /\ KbIdle /\ PredIdle /\ CrawlIdle
    /\ FetchIdle /\ PoolIdle /\ AuxIdle

ExtractTwice ==
    /\ ~idem.done
    /\ \E a \in {RunOver(idem.page, idem.netloc, "A1", idem.first)},
          b \in {RunOver(idem.page, idem.netloc, "A1", idem.second)} :
        idem' = [page |-> idem.page, netloc |-> idem.netloc, first |-> idem.first,
                 second |-> idem.second, done |-> TRUE, a |-> a, b |-> b]
    /\ UNCHANGED <<simVars, sigVars, detVars, kbVars, predVars, crawlVars, fetch, pool, auxVars>>

NextIdem == ExtractTwice

SpecIdem == InitIdem /\ [][NextIdem]_vars

Ids(records) == {rec.id : rec \in records}

(***************************************************************************)
(* C15 as stated: two runs over the same unchanged page yield the same set *)
(* of identifiers, whatever the run id, the time and the knowledge base of *)
(* each run.                                                               *)
(***************************************************************************)
DedupIdempotentAsStated ==
    idem.done => Ids(idem.a.records) = Ids(idem.b.records)

(***************************************************************************)
(* C15, amended: the identifier of a record is the digest of its listing's *)
(* address and of nothing else, and two runs over the same unchanged page  *)
(* that extract with the same pattern group yield the same set of          *)
(* identifiers, whatever the run id and the time of each run.              *)
(***************************************************************************)
DedupIdempotent ==
    idem.done =>
        /\ \A rec \in idem.a.records \cup idem.b.records : rec.id = Md5(rec.listing_url)
        /\ idem.a.pattern_used = idem.b.pattern_used =>
               Ids(idem.a.records) = Ids(idem.b.records)

\* Two runs with different run ids, times and knowledge bases extracted the
\* same pattern group and made different records with the same identifiers.
DedupIdempotentWitness ==
    /\ idem.done
    /\ idem.first.kb # idem.second.kb
    /\ idem.first.scraper_run_id # idem.second.scraper_run_id
    /\ idem.first.scraped_at # idem.second.scraped_at
    /\ idem.a.pattern_used = idem.b.pattern_used
    /\ idem.a.records # {}
    /\ idem.a.records # idem.b.records
    /\ Ids(idem.a.records) = Ids(idem.b.records)

(***************************************************************************)
(* Specification SpecFetch: fetch_page and _post_with_retry of             *)
(* scraper/cleaning_scraper.py                                             *)
(***************************************************************************)
tries == 5

\* What one self.session.post may do: answer with a status, or raise a
\* transport error (NoStatus).
NoStatus == 0
PostOutcomes == {NoStatus, 200, 403, 404, 429, 503}

\* resp.raise_for_status() raises HTTPError for a status that is not ok.
RaisesForStatus(status) == status >= 400

\* One iteration of the loop of _post_with_retry, lines 101-118: TRUE when it
\* returns the response, FALSE when it sleeps and goes round again.  The
\* exception of raise_for_status is raised inside the try and caught by its
\* except clause like a transport error.
AttemptReturns(status) ==
    IF status = NoStatus THEN FALSE
    ELSE IF status = 429 THEN FALSE
    ELSE IF 500 <= status /\ status < 600 THEN FALSE
    ELSE ~RaisesForStatus(status)

NoResponse == [none |-> TRUE, status |-> NoStatus]
Response(status) == [none |-> FALSE, status |-> status]

InitFetch ==
    /\ fetch = [pc |-> "post", attempt |-> 1, sent |-> <<>>, resp |-> NoResponse,
                page |-> "pending", reported |-> FALSE]
    /\ SimIdle /\ SigIdle /\ DetIdle /\ KbIdle /\ PredIdle /\ CrawlIdle
    /\ IdemIdle /\ PoolIdle /\ AuxIdle

\* _post_with_retry: one attempt.  sent lists what each request sent so far
\* met.
PostAttempt ==
    /\ fetch.pc = "post"
    /\ \E status \in PostOutcomes :
        fetch' = IF AttemptReturns(status)
                 THEN [fetch EXCEPT !.sent = Append(@, status), !.pc = "back",
                                    !.resp = Response(status)]
                 ELSE IF fetch.attempt < tries
                 THEN [fetch EXCEPT !.sent = Append(@, status), !.attempt = @ + 1]
                 ELSE \* the loop is used up: return None
                      [fetch EXCEPT !.sent = Append(@, status), !.pc = "back",
                                    !.resp = NoResponse]
    /\ UNCHANGED <<simVars, sigVars, detVars, kbVars, predVars, crawlVars, idem, pool, auxVars>>

\* fetch_page, lines 167-184, after _post_with_retry returned: no response
\* and a body that is not JSON both give the empty list; nothing else is
\* done with a failed fetch.
FetchPageReturns ==
    /\ fetch.pc = "back"
    /\ \E json \in {"ok", "raises"} :
        fetch' = [fetch EXCEPT !.pc = "done",
                               !.page = IF fetch.resp.none \/ json = "raises"
                                        THEN "empty" ELSE "rows"]
    /\ UNCHANGED <<simVars, sigVars, detVars, kbVars, predVars, crawlVars, idem, pool, auxVars>>

NextFetch ==
    \/ PostAttempt
    \/ FetchPageReturns

SpecFetch == InitFetch /\ [][NextFetch]_vars

(***************************************************************************)
(* C16: a page fetch that used up all its attempts is reported as a        *)
(* failure and is not turned into an empty page result.                    *)
(***************************************************************************)
ExhaustedFetchReported ==
    (fetch.pc = "done" /\ fetch.resp.none) =>
        /\ fetch.reported
        /\ fetch.page # "empty"

(***************************************************************************)
(* C17: _post_with_retry sends a request again only after a 429, a 5xx or  *)
(* a transport error: a request answered with 403 or 404 is the last one   *)
(* sent.                                                                   *)
(***************************************************************************)
Transient(status) ==
    status = NoStatus \/ status = 429 \/ (500 <= status /\ status < 600)

RetriesOnlyTransient ==
    \A k \in 1..Len(fetch.sent) : k < Len(fetch.sent) => Transient(fetch.sent[k])

(***************************************************************************)
(* Specification SpecPool: the worker threads of scrape_listings           *)
(***************************************************************************)
\* Pages 1..PoolPages are submitted, one future each, and a worker thread is
\* free for each.  A row is given by its dedup key urlStub--header.
PoolPages == 2
PoolThreads == 1..PoolPages
PoolRows == {<<"k1">>, <<"k1", "k2">>, <<"k2", "k1">>, <<"k1", "k1">>}
Free == 0

\* A plausible slip: the loop over the rows runs without the lock.
CanEnterAlways(lock, t) == TRUE

\* with lock: the thread enters when no thread holds the lock.
CanEnter(lock, t) == lock = Free

PoolThread(rows) ==
    [pc |-> "fetch", rows |-> rows, ok |-> FALSE, todo |-> <<>>, absent |-> FALSE,
     new_listings |-> <<>>]

InitPool ==
    /\ \E rows \in [PoolThreads -> PoolRows] :
        pool = [listing_ids |-> {}, all_listings |-> <<>>, lock |-> Free,
                threads |-> [t \in PoolThreads |-> PoolThread(rows[t])],
                collected |-> {}]
    /\ SimIdle /\ SigIdle /\ DetIdle /\ KbIdle /\ PredIdle /\ CrawlIdle
    /\ IdemIdle /\ FetchIdle /\ AuxIdle

PoolUnchanged ==
    UNCHANGED <<simVars, sigVars, detVars, kbVars, predVars, crawlVars, idem, fetch, auxVars>>

\* fetch_page, lines 165-173: the request and the parsing of its answer.  A
\* failed request and a body that is not JSON return the empty list.
PoolFetch(t) ==
    /\ pool.threads[t].pc = "fetch"
    /\ \E ok \in BOOLEAN :
        pool' = [pool EXCEPT !.threads[t].ok = ok,
                             !.threads[t].todo = IF ok THEN pool.threads[t].rows ELSE <<>>,
                             !.threads[t].pc = IF ok THEN "enter" ELSE "returned"]
    /\ PoolUnchanged

\* with lock: acquire.
PoolEnter(t) ==
    /\ pool.threads[t].pc = "enter"
    /\ CanEnter(pool.lock, t)
    /\ pool' = [pool EXCEPT !.lock = t, !.threads[t].pc = "check"]
    /\ PoolUnchanged

\* for listing in rows: the test key not in listing_ids; after the last row
\* the lock is released and the thread returns new_listings.
PoolCheck(t) ==
    /\ pool.threads[t].pc = "check"
    /\ pool' = IF pool.threads[t].todo = <<>>
               THEN [pool EXCEPT !.lock = Free, !.threads[t].pc = "returned"]
               ELSE [pool EXCEPT !.threads[t].absent =
                                     Head(pool.threads[t].todo) \notin pool.listing_ids,
                                 !.threads[t].pc = "insert"]
    /\ PoolUnchanged

\* listing_ids.add(key); new_listings.append(listing), when the test held.
PoolInsert(t) ==
    /\ pool.threads[t].pc = "insert"
    /\ LET key == Head(pool.threads[t].todo)
       IN  pool' = IF pool.threads[t].absent
                   THEN [pool EXCEPT !.listing_ids = @ \cup {key},
                                     !.threads[t].new_listings = Append(@, key),
                                     !.threads[t].todo = Tail(@),
                                     !.threads[t].pc = "check"]
                   ELSE [pool EXCEPT !.threads[t].todo = Tail(@),
                                     !.threads[t].pc = "check"]
    /\ PoolUnchanged

\* The main thread, lines 187-192: as_completed hands over a finished future
\* and its listings are appended.
PoolCollect(t) ==
    /\ pool.threads[t].pc = "returned"
    /\ t \notin pool.collected
    /\ pool' = [pool EXCEPT !.all_listings = @ \o pool.threads[t].new_listings,
                            !.collected = @ \cup {t}]
    /\ PoolUnchanged

NextPool ==
    \E t \in PoolThreads :
        \/ PoolFetch(t)
        \/ PoolEnter(t)
        \/ PoolCheck(t)
        \/ PoolInsert(t)
        \/ PoolCollect(t)

SpecPool == InitPool /\ [][NextPool]_vars

(***************************************************************************)
(* C18: under every interleaving of the worker threads the test and the    *)
(* insertion on the shared set of keys are atomic: at most one thread is   *)
(* between them, and when every page has been collected the listing list   *)
(* holds no key twice and holds exactly the keys of the rows of the pages  *)
(* that were fetched.                                                      *)
(***************************************************************************)
PoolKeys(t) == {pool.threads[t].rows[i] : i \in 1..Len(pool.threads[t].rows)}

DedupSetAtomic ==
    /\ \A t, u \in PoolThreads :
           (pool.threads[t].pc \in {"check", "insert"}
            /\ pool.threads[u].pc \in {"check", "insert"}) => t = u
    /\ pool.collected = PoolThreads =>
           /\ \A i, j \in 1..Len(pool.all_listings) :
                  pool.all_listings[i] = pool.all_listings[j] => i = j
           /\ {pool.all_listings[i] : i \in 1..Len(pool.all_listings)}
                  = UNION {PoolKeys(t) : t \in {u \in PoolThreads : pool.threads[u].ok}}

\* Every page was fetched and collected, two pages share a key, and the page
\* submitted later got the lock first.
DedupSetAtomicWitness ==
    /\ pool.collected = PoolThreads
    /\ \A t \in PoolThreads : pool.threads[t].ok
    /\ PoolKeys(1) \cap PoolKeys(2) # {}
    /\ Len(pool.threads[2].new_listings) = 2
    /\ pool.threads[1].new_listings = <<>>

(***************************************************************************)
(* C19: the regular sources use the shared browser context one at a time:  *)
(* at most one page is open at any moment, it is the page of the source    *)
(* being handled, and no page is open when the next source starts or the   *)
(* run is done, whichever way scrape_broker was left.                      *)
(***************************************************************************)
OnePageAtATime ==
    /\ Cardinality(open_pages) <= 1
    /\ pc \in {"start", "done"} => open_pages = {}
    /\ pc \in {"opened", "crawl", "finish"} => open_pages = {bi}

\* The first source left scrape_broker by the early return for a status
\* other than 200, and the page of the second source is open.
OnePageAtATimeWitness ==
    /\ Len(outcomes) = 1
    /\ outcomes[1].path = "not200"
    /\ bi = 2
    /\ pc = "crawl"
    /\ open_pages = {2}

(***************************************************************************)
(* C20: the tally of sources is consistent: whenever no source is being    *)
(* handled, and so at the end of the run, attempted = success + failed;    *)
(* while a regular source is being handled it is the one source attempted  *)
(* and not yet counted.                                                    *)
(***************************************************************************)
TallyConsistent ==
    /\ stats.attempted = Len(attempts)
    /\ pc \in {"specialized", "start", "done", "aborted"} =>
           stats.attempted = stats.success + stats.failed
    /\ pc \in {"opened", "crawl", "finish"} =>
           stats.attempted = stats.success + stats.failed + 1

\* A run of two specialized and two regular sources is done, with sources
\* counted on either side.
TallyConsistentWitness ==
    /\ pc = "done"
    /\ Len(specialized_brokers) = 2
    /\ Len(brokers) = 2
    /\ stats.attempted = 4
    /\ stats.success = 2
    /\ stats.failed = 2
    /\ stats.failures_by_type["TIMEOUT"] = 1

(***************************************************************************)
(* Specification SpecClassify: one call of FailureAnalyzer.classify_failure *)
(***************************************************************************)
\* What the checks read of the error text: 'timeout' or 'timed out', 'ssl'
\* or 'certificate', 'no pattern' or 'no business listings'.
ClassifyErrors == [timeout : BOOLEAN, ssl : BOOLEAN, no_pattern : BOOLEAN]

\* http_status: None (0), or the status of the response.
ClassifyStatuses == {0, 200, 403, 404, 429, 500, 503}

\* html: None or empty (not present), or a page content with or without a
\* CAPTCHA marker, shorter than SmallHtml or not.
ClassifyHtml ==
    {NoHtml} \cup
    [present : {TRUE}, captcha : BOOLEAN, length : {SmallHtml - 1, SmallHtml}]

NotClassified == "pending"

InitClassify ==
    /\ \E error \in ClassifyErrors, http_status \in ClassifyStatuses,
          html \in ClassifyHtml :
        classify = [error |-> error, http_status |-> http_status, html |-> html,
                    failure_type |-> NotClassified]
    /\ SimIdle /\ SigIdle /\ DetIdle /\ KbIdle /\ PredIdle /\ CrawlIdle /\ ExtIdle
    /\ RunsIdle /\ OrchIdle

CallClassifyFailure ==
    /\ classify.failure_type = NotClassified
    /\ classify' = [classify EXCEPT !.failure_type =
                        ClassifyFailure(classify.error, classify.http_status,
                                        classify.html)]
    /\ UNCHANGED <<simVars, sigVars, detVars, kbVars, predVars, crawlVars, extVars,
                   scraper_runs, orch>>

NextClassify == CallClassifyFailure

SpecClassify == InitClassify /\ [][NextClassify]_vars

\* The checks of the claim in the order the claim gives them, each with the
\* type it stands for; the last always matches.
ClaimedChecks(c) ==
    << [hit |-> c.http_status = 403, type |-> "HTTP_403"],
       [hit |-> c.http_status = 404, type |-> "HTTP_404"],
       [hit |-> c.http_status >= 500, type |-> "HTTP_500"],
       [hit |-> c.error.timeout, type |-> "TIMEOUT"],
       [hit |-> c.error.ssl, type |-> "SSL_ERROR"],
       [hit |-> c.html.present /\ c.html.captcha, type |-> "CAPTCHA"],
       [hit |-> c.error.no_pattern, type |-> "NO_PATTERN"],
       [hit |-> c.html.present /\ c.html.length < SmallHtml,
        type |-> "JAVASCRIPT_HEAVY"],
       [hit |-> TRUE, type |-> "UNKNOWN"] >>

(***************************************************************************)
(* C21: classify_failure answers every call with a failure type, the type  *)
(* of the first check that matches in the order 403, 404, 5xx, timeout,    *)
(* SSL, CAPTCHA, no pattern, short page, unknown; a status of 403, 404 or  *)
(* 5xx decides the type whatever the error text and the page content are.  *)
(***************************************************************************)
ClassifyFirstMatch ==
    classify.failure_type # NotClassified =>
        LET checks == ClaimedChecks(classify)
        IN  /\ classify.failure_type \in FailureTypes
            /\ \E k \in 1..Len(checks) :
                   /\ checks[k].hit
                   /\ \A j \in 1..(k - 1) : ~checks[j].hit
                   /\ classify.failure_type = checks[k].type
            /\ classify.http_status \in {403, 404} \/ classify.http_status >= 500 =>
                   classify.failure_type \in {"HTTP_403", "HTTP_404", "HTTP_500"}

\* A call with status 403, an error text that names a timeout and a page
\* with a CAPTCHA marker was answered HTTP_403.
ClassifyFirstMatchWitness ==
    /\ classify.http_status = 403
    /\ classify.error.timeout
    /\ classify.html.present /\ classify.html.captcha
    /\ classify.failure_type = "HTTP_403"

\* What one loop iteration of scrape_with_learning added to all_listings.
AddedByStep ==
    SubSeq(crawl'.all_listings, Len(crawl.all_listings) + 1, Len(crawl'.all_listings))

\* The step handled the page that site' shows with pattern group p of it.
UsedGroup(p) ==
    /\ ExtractAll(p.elements) # <<>>
    /\ crawl'.pattern_used = p.signature
    /\ AddedByStep = ExtractAll(p.elements)

\* The step handled the page with the first of the detected groups found,
\* among the first PatternsTried, that yields a listing, or with none.
UsedFirstYielding(found) ==
    LET n == IF Len(found) < PatternsTried THEN Len(found) ELSE PatternsTried
    IN  \/ /\ \A k \in 1..n : ExtractAll(found[k].elements) = <<>>
           /\ crawl'.pattern_used = <<>>
           /\ AddedByStep = <<>>
        \/ \E k \in 1..n :
           /\ UsedGroup(found[k])
           /\ \A j \in 1..(k - 1) : ExtractAll(found[j].elements) = <<>>

CachedFirstStep ==
    (pc = "crawl" /\ trace'.fetched = trace.fetched + 1) =>
        LET d == DomainOf(brokers[bi].url)
            found == FindPatterns(site'.page)
            cachedGroup == SelectSeq(found,
                               LAMBDA p : p.signature = patterns[KbIndex(patterns, d)].pattern)
        IN  IF crawl.pages_scraped = 0 /\ KbHas(patterns, d)
            THEN IF cachedGroup # <<>> /\ ExtractAll(cachedGroup[1].elements) # <<>>
                 THEN UsedGroup(cachedGroup[1])
                 ELSE /\ site'.page = site.page
                      /\ \/ crawl'.pattern_used = <<>> /\ AddedByStep = <<>>
                         \/ \E k \in 1..Len(found) : UsedGroup(found[k])
            ELSE crawl.pages_scraped > 0 => UsedFirstYielding(found)

(***************************************************************************)
(* C22: on page 1 of a source whose domain has a knowledge-base record the *)
(* element group of the cached signature is used whenever it is on the     *)
(* page and yields a listing, whatever the other groups are; when it is    *)
(* absent or yields nothing the groups detected on the same page are       *)
(* tried; on a later page the first detected group that yields a listing   *)
(* is used, cached or not.                                                 *)
(***************************************************************************)
CachedPatternFirstOnPageOne == [][CachedFirstStep]_vars

\* Page 1 of a source with a cached item pattern showed a card group before
\* the item group, and the items were extracted.
CachedPatternFirstOnPageOneWitness ==
    /\ pc = "crawl"
    /\ crawl.pages_scraped = 1
    /\ site.page = PageTwoPatterns
    /\ KbHas(patterns, DomainOf(brokers[bi].url))
    /\ crawl.pattern_used = SigItem
    /\ crawl.pattern_used # FindPatterns(site.page)[1].signature
    /\ ~trace.firstFresh
    /\ crawl.all_listings # <<>>

ConsecutiveEmptyStep ==
    /\ pc \in {"crawl", "finish"} => crawl.consecutive_empty = 0
    /\ pc' \in {"crawl", "finish"} => crawl'.consecutive_empty = 0
    /\ (pc = "crawl" /\ trace'.fetched = trace.fetched + 1 /\ AddedByStep = <<>>) =>
           /\ pc' = "finish"
           /\ crawl'.pattern_used = <<>>

(***************************************************************************)
(* C24: in scrape_with_learning consecutive_empty is 0 in every state, and *)
(* a page that adds no listing ends the crawl of its source in the same    *)
(* loop iteration, with no pattern, so the stop after three empty pages is *)
(* never the one taken.                                                    *)
(***************************************************************************)
ConsecutiveEmptyAlwaysZero == [][ConsecutiveEmptyStep]_vars

\* A second page was fetched, it yielded no listing, and the crawl ended at
\* once with the listings of the first page.
ConsecutiveEmptyAlwaysZeroWitness ==
    /\ pc = "finish"
    /\ trace.fetched = 2
    /\ site.page = PageNoListing
    /\ crawl.pattern_used = <<>>
    /\ crawl.all_listings # <<>>
    /\ crawl.consecutive_empty = 0

\* The row of domain d in table and its record in kb say the same.
RowMatchesRecord(kb, table, d) ==
    /\ KbHas(kb, d) <=> \E r \in table : r.domain = d
    /\ \A r \in table :
           (r.domain = d /\ KbHas(kb, d)) =>
               /\ r.success_count = KbSuccessCount(kb, d)
               /\ r.pattern_signature = kb[KbIndex(kb, d)].pattern

\* One call of record_success: its three effects happen together, and a
\* domain whose row and record agreed before the call has them agree after.
RecordSuccessStep ==
    log' # log =>
        LET d == log'[Len(log')].domain
        IN  /\ (patterns' # patterns) <=> (db_history' # db_history)
            /\ (patterns' # patterns) <=> (db_patterns' # db_patterns)
            /\ RowMatchesRecord(patterns, db_patterns, d) =>
                   RowMatchesRecord(patterns', db_patterns', d)

(***************************************************************************)
(* C25: record_success is all-or-nothing: in any call, whichever write     *)
(* fails, the persisted row, the history log and the in-memory record are  *)
(* all updated or none is, so that a domain whose persisted row and        *)
(* in-memory record agree on success_count and pattern before the call     *)
(* has them agree after it.                                                *)
(***************************************************************************)
RecordSuccessAllOrNothing == [][RecordSuccessStep]_vars

(***************************************************************************)
(* C26: a signature that predict_pattern returns is one of the             *)
(* available_patterns it was given, whatever the knowledge base holds and  *)
(* whether or not the domain of the URL has a record of its own.           *)
(***************************************************************************)
PredictedIsAvailable ==
    (predicted # "idle" /\ predicted # None) => predicted \in SeqRange(predAvailable)

(***************************************************************************)
(* Specification SpecRecord: run_async with the record of its run          *)
(***************************************************************************)
\* The sources of a run: one specialized source or none, one regular source
\* or none.
RecordSpecialized == {<<>>, <<Broker("S1", N_murphy)>>}
RecordBrokers == CrawlBrokers \cup {<<>>}

InitRecord ==
    /\ RunLoaded(RecordSpecialized, RecordBrokers, RunSitePages, RunSitePages)
    /\ pc = "load"
    /\ scraper_runs = <<>>
    /\ ClassifyIdle /\ OrchIdle

\* create_scraper_run, lines 524-542: the row is inserted with status
\* 'running', or the insert raises and the warning is printed.
CreateScraperRun ==
    /\ pc = "load"
    /\ \E inserted \in BOOLEAN :
        scraper_runs' = IF inserted THEN Append(scraper_runs, [status |-> "running"])
                        ELSE scraper_runs
    /\ pc' = FirstPhase(specialized_brokers, brokers)
    /\ UNCHANGED <<specialized_brokers, brokers, bi, open_pages, stats, all_listings,
                   seen_ids, crawl, site, db_failures, trace, outcomes, attempts,
                   kbVars, simVars, sigVars, detVars, predVars, extVars, classify, orch>>

\* run_async, lines 1200-1209: async_playwright().start(), chromium.launch
\* or new_context raises, and nothing in run_async catches it.
BrowserStartRaises ==
    /\ pc = "start"
    /\ bi = 1
    /\ pc' = "aborted"
    /\ UNCHANGED <<specialized_brokers, brokers, bi, open_pages, stats, all_listings,
                   seen_ids, crawl, site, db_failures, trace, outcomes, attempts,
                   kbVars, simVars, sigVars, detVars, predVars, extVars, auxVars>>

\* update_scraper_run, lines 544-560: the row of the run, if there is one, is
\* given the status, unless the update raises.
UpdateScraperRun(runs, status, updated) ==
    IF updated THEN [i \in 1..Len(runs) |-> [runs[i] EXCEPT !.status = status]]
    ELSE runs

\* run_async after the loops, lines 1224-1229: the browser is closed if it
\* was started, save() stores the listings and keeps its own errors, and the
\* record of the run is updated.
FinishRun ==
    /\ pc = "done"
    /\ \E closes \in CloseOutcomes, updated \in BOOLEAN :
        /\ (brokers = <<>>) => closes = "ok"
        /\ IF closes = "raises"
           THEN pc' = "aborted" /\ UNCHANGED scraper_runs
           ELSE /\ pc' = "ended"
                /\ scraper_runs' = UpdateScraperRun(scraper_runs, "completed", updated)
    /\ UNCHANGED <<specialized_brokers, brokers, bi, open_pages, stats, all_listings,
                   seen_ids, crawl, site, db_failures, trace, outcomes, attempts,
                   kbVars, simVars, sigVars, detVars, predVars, extVars, classify, orch>>

NextRecord ==
    \/ CreateScraperRun
    \/ BrowserStartRaises
    \/ NextAll
    \/ FinishRun

SpecRecord == InitRecord /\ [][NextRecord]_vars

(***************************************************************************)
(* C27: every record that run_async created with status 'running' has a    *)
(* terminal status, 'completed' or 'failed', once the run is over, however *)
(* the run went: also when starting the browser, a source or closing a     *)
(* page raised.                                                            *)
(***************************************************************************)
RunRecordClosed ==
    pc \in {"ended", "aborted"} =>
        \A i \in 1..Len(scraper_runs) : scraper_runs[i].status \in {"completed", "failed"}

(***************************************************************************)
(* C28: within one source scrape_with_learning handles no page address     *)
(* twice: the addresses whose pages it handled are all different, and when *)
(* the loop left because the next address had been visited nothing was     *)
(* fetched in that iteration.                                              *)
(***************************************************************************)
NoPageUrlTwice ==
    pc \in {"crawl", "finish"} =>
        /\ Cardinality({trace.urls[k] : k \in 1..Len(trace.urls)}) = Len(trace.urls)
        /\ Len(trace.urls) = trace.fetched
        /\ trace.revisit => trace.iterations = trace.fetched + 1

\* The next link of the second page led back to the first page, and the
\* crawl ended with the two pages handled once each.
NoPageUrlTwiceWitness ==
    /\ pc = "finish"
    /\ trace.revisit
    /\ trace.urls = <<0, 1>>

(***************************************************************************)
(* C29: a regular source is counted in stats['success'] only if at least   *)
(* one listing of it passed the vertical filter, on the file path and on   *)
(* the crawl path of scrape_broker alike.                                  *)
(***************************************************************************)
SuccessNeedsMatchedListing ==
    \A i \in 1..Len(outcomes) : outcomes[i].success > 0 => outcomes[i].accepted > 0

(***************************************************************************)
(* Specification SpecOrch: ScraperOrchestrator.run                         *)
(***************************************************************************)
\* The lists the orchestrator is constructed with; both are validated and
\* an empty list stands for all.
OrchVerticals == {<<"cleaning">>, <<"cleaning", "hvac">>}
OrchScrapers == {<<"bizbuysell">>, <<"bizbuysell", "unified">>,
                 <<"bizbuysell", "specialized", "unified">>}

\* The (vertical, scraper) pairs in the order of the two nested loops.
OrchPairs(verticals, scrapers) ==
    [k \in 1..(Len(verticals) * Len(scrapers)) |->
        [vertical |-> verticals[((k - 1) \div Len(scrapers)) + 1],
         scraper |-> scrapers[((k - 1) % Len(scrapers)) + 1]]]

\* What run_scraper may do: return the result of a run that went through,
\* return the 'failed' result its wrapper made of an exception, or raise.
OrchOutcomes == {"success", "failed", "raises"}

OrchResult(pair, status) ==
    [vertical |-> pair.vertical, scraper |-> pair.scraper, status |-> status]

InitOrch ==
    /\ \E verticals \in OrchVerticals, scrapers \in OrchScrapers, skip_errors \in BOOLEAN :
        orch = [verticals |-> verticals, scrapers |-> scrapers,
                skip_errors |-> skip_errors, current_run |-> 0, results |-> <<>>,
                started |-> <<>>, pc |-> "run"]
    /\ SimIdle /\ SigIdle /\ DetIdle /\ KbIdle /\ PredIdle /\ CrawlIdle /\ ExtIdle
    /\ ClassifyIdle /\ RunsIdle

\* self.results after the body of the inner loop, lines 277-304, for one
\* pair: the result run_scraper returned is appended; a 'failed' result with
\* skip_errors off raises inside the try block, and the except clause, which
\* also takes what run_scraper raised, appends a 'failed' entry of its own.
ResultsAfter(results, pair, outcome, skip_errors) ==
    LET returned == IF outcome = "raises" THEN results
                    ELSE Append(results, OrchResult(pair, outcome))
        caught == outcome = "raises" \/ (outcome = "failed" /\ ~skip_errors)
    IN  IF caught THEN Append(returned, OrchResult(pair, "failed")) ELSE returned

\* One pass of the inner loop of run.  started is a history variable: the
\* pairs run_scraper was called for.
OrchRunPair ==
    /\ orch.pc = "run"
    /\ \E outcome \in OrchOutcomes :
        LET pairs == OrchPairs(orch.verticals, orch.scrapers)
            current_run == orch.current_run + 1
            pair == pairs[current_run]
            reraised == outcome # "success" /\ ~orch.skip_errors
        IN  orch' = [orch EXCEPT
                        !.current_run = current_run,
                        !.started = Append(@, pair),
                        !.results = ResultsAfter(@, pair, outcome, orch.skip_errors),
                        !.pc = IF reraised THEN "raised"
                               ELSE IF current_run < Len(pairs) THEN "run"
                               ELSE "done"]
    /\ UNCHANGED <<simVars, sigVars, detVars, kbVars, predVars, crawlVars, extVars,
                   classify, scraper_runs>>

NextOrch == OrchRunPair

SpecOrch == InitOrch /\ [][NextOrch]_vars

(***************************************************************************)
(* C30: run visits the (vertical, scraper) pairs in order; self.results    *)
(* holds exactly one entry for each pair that was started, in that order,  *)
(* whatever skip_errors is; with skip_errors on every pair is started, and *)
(* with skip_errors off no pair is started after one that failed.          *)
(***************************************************************************)
OneResultPerStartedPair ==
    LET pairs == OrchPairs(orch.verticals, orch.scrapers)
        n == Len(orch.started)
    IN  /\ n <= Len(pairs)
        /\ orch.started = SubSeq(pairs, 1, n)
        /\ Len(orch.results) = n
        /\ \A k \in 1..n :
               /\ orch.results[k].vertical = orch.started[k].vertical
               /\ orch.results[k].scraper = orch.started[k].scraper
        /\ (orch.skip_errors /\ orch.pc # "run") => n = Len(pairs)
        /\ ~orch.skip_errors =>
               \A k \in 1..(n - 1) : orch.results[k].status = "success"

====
